---- MODULE Spec2Model ----
(***************************************************************************)
(* Supervision runtime of the Kalshi trading bot: KalshiBot (bot.py), the  *)
(* SupervisorOrchestrator (supervisors/orchestrator.py), BaseSupervisor    *)
(* and Worker (supervisors/base_supervisor.py) and the concrete workers.   *)
(*                                                                         *)
(* Scheduling is asyncio's: one thread, tasks interleave only at awaits    *)
(* that really suspend (asyncio.sleep).  Every action below is the code    *)
(* that runs between two suspension points of one task.                    *)
(***************************************************************************)
EXTENDS Integers, Sequences, FiniteSets, TLC

\* ------------------------------------------------------------------ bounds
\* how many supervisors of the declared order are instantiated
NumSup == 3
\* clock steps a behaviour may take, and the length of one step in seconds
MaxTicks == 4
TickStep == 100
\* supervisors whose run() raises in one behaviour
MaxFaulty == 1

\* ------------------------------------------------------- program constants
\* orchestrator.py:76  max_restarts = 3
max_restarts == 3
\* base_supervisor.py:90  heartbeat timeout in seconds
HEARTBEAT_TIMEOUT == 300

\* orchestrator.py:25-35: the dict literal, whose insertion order is the
\* startup order
DeclaredOrder ==
  << "repo", "observability", "ingest", "markets", "sports",
     "capital", "trading", "simulation", "dashboard" >>

Sup == 1..NumSup

SupName(s) == DeclaredOrder[s]

\* the Worker classes each supervisor's _initialize appends, in order
InitWorkers(s) ==
  CASE SupName(s) = "repo"          -> << "DatabaseWorker" >>
    [] SupName(s) = "observability" -> << "MetricsMonitorWorker" >>
    [] SupName(s) = "ingest"        -> << "MarketIngestWorker" >>
    [] SupName(s) = "markets"       -> << "MarketAnalysisWorker", "OpportunityMonitor" >>
    [] SupName(s) = "sports"        -> << "SportsAnalysisWorker" >>
    [] SupName(s) = "capital"       -> << "PortfolioManagementWorker" >>
    [] SupName(s) = "trading"       -> << "OrderExecutionWorker" >>
    [] SupName(s) = "simulation"    -> << "BacktestWorker" >>
    [] OTHER                        -> << "DashboardWebWorker" >>

\* the supervisors whose public accessors a supervisor's workers call:
\* MarketAnalysisWorker.run awaits capital.get_balance and
\* capital.get_total_exposure, ingest.fetch_active_markets and
\* repo.store_opportunities, OpportunityMonitor.run awaits
\* repo.get_active_opportunities; no other supervisor holds a reference to
\* a sibling
Consumes(name) ==
  IF name = "markets" THEN { "repo", "ingest", "capital" } ELSE { }

\* Worker.run bodies: every worker wraps its iteration in try/except
\* Exception, except DatabaseWorker, whose loop is bare and whose sleep
\* names a module (asyncio) that repo_supervisor.py never imports.
Guarded(cls) == cls # "DatabaseWorker"

VARIABLES
  running,            \* KalshiBot.running
  mainpc,             \* where the main task (KalshiBot.start) stands
  idx,                \* loop position of start_all / stop_all
  fatal,              \* an exception is propagating out of KalshiBot.start
  exitcode,           \* process exit status, -1 while the process lives
  started,            \* BaseSupervisor.started, per supervisor
  healthy,            \* BaseSupervisor.healthy, per supervisor
  workers,            \* BaseSupervisor.workers, per supervisor: Seq of Worker
  tasks,              \* SupervisorOrchestrator.tasks: state of each wrapper task
  ready,              \* event loop: cancelled tasks queued for their wakeup
  restart_count,      \* _run_supervisor's local restart_count
  health_check_task,  \* SupervisorOrchestrator.health_check_task
  now,                \* datetime.now(), seconds
  unhealthy,          \* the list the last health sweep reported
  orphans,            \* per supervisor: live worker tasks no Worker.task refers to
  startLog,           \* history: supervisors in the order start_all called start()
  stopLog,            \* history: supervisors in the order stop_all called stop()
  stop_raised,        \* history: supervisors whose stop() raised in stop_all
  start_error,        \* history: supervisor whose start() raised in start_all, or 0
  restarts,           \* history: times the wrapper called start() again
  streak,             \* history: crashes of run() since run() last returned normally
  call,               \* the last call of a pure function: its arguments and result
  balance,            \* what the capital collaborator's get_balance returns, cents
  analysis,           \* MarketAnalysisWorker: self.sizer and its last iteration
  opportunities,      \* the rows of the opportunities table, by id
  active              \* the ids the last get_active_opportunities returned

vars ==
  << running, mainpc, idx, fatal, exitcode, started, healthy, workers, tasks,
     ready, restart_count, health_check_task, now, unhealthy,
     orphans, startLog, stopLog, stop_raised, start_error, restarts, streak,
     call, balance, analysis, opportunities, active >>

pipeVars == << balance, analysis, opportunities, active >>

botVars == << running, mainpc, idx, fatal, exitcode >>
histVars ==
  << startLog, stopLog, stop_raised, start_error, restarts, streak, call, pipeVars >>

\* ------------------------------------------------------------------ Worker
\* Worker.__init__: task None, healthy True, last_heartbeat now
NewWorker(cls) ==
  [ cls |-> cls, task |-> "none", healthy |-> TRUE, last_heartbeat |-> now ]

TaskLive(t) == t \in {"live", "cancelling"}

\* Worker.start: self.task = create_task(self.run())
WorkerStart(w) == [ w EXCEPT !.task = "live" ]

\* Worker.stop: if self.task: self.task.cancel()
WorkerStop(w) ==
  [ w EXCEPT !.task = IF TaskLive(w.task) THEN "cancelling" ELSE w.task ]

\* variant of heartbeat that clears the flag and leaves the timestamp
heartbeat_flag_only(w) == [ w EXCEPT !.healthy = TRUE ]

\* Worker.heartbeat
heartbeat(w) ==
  [ w EXCEPT !.last_heartbeat = now, !.healthy = TRUE ]

\* no pure function has been called
NoCall == [ fn |-> "none" ]

\* CapitalSupervisor.get_balance's return value, 66.13 dollars
InitialBalance == 6613

\* MarketAnalysisWorker.__init__: self.sizer None (and self.scorer with it),
\* no iteration run yet
NewAnalysis ==
  [ sizer |-> << >>, last |-> [ outcome |-> "none" ] ]

Init ==
  /\ running = FALSE
  /\ mainpc = "start"
  /\ idx = 0
  /\ fatal = FALSE
  /\ exitcode = -1
  /\ started = [ s \in Sup |-> FALSE ]
  /\ healthy = [ s \in Sup |-> TRUE ]
  /\ workers = [ s \in Sup |-> << >> ]
  /\ tasks = [ s \in Sup |-> "none" ]
  /\ ready = << >>
  /\ restart_count = [ s \in Sup |-> 0 ]
  /\ health_check_task = "none"
  /\ now = 0
  /\ unhealthy = {}
  /\ orphans = [ s \in Sup |-> 0 ]
  /\ startLog = << >>
  /\ stopLog = << >>
  /\ stop_raised = {}
  /\ start_error = 0
  /\ restarts = [ s \in Sup |-> 0 ]
  /\ streak = [ s \in Sup |-> 0 ]
  /\ call = NoCall
  /\ balance = InitialBalance
  /\ analysis = NewAnalysis
  /\ opportunities = << >>
  /\ active = << >>

\* ---------------------------------------------------------- BaseSupervisor
\* _initialize hooks that do more than append a Worker and so can raise,
\* before they append: RepoSupervisor's (makedirs, sqlite3.connect) and
\* IngestSupervisor's (KalshiClient())
CanInitRaise(s) == SupName(s) \in {"repo", "ingest"}

\* the only _cleanup override is RepoSupervisor's, which closes the
\* connection once _initialize has opened one
CanCleanupRaise(s) == SupName(s) = "repo" /\ Len(workers[s]) > 0

\* the Worker objects one call of _initialize constructs
fresh_workers(s) ==
  [ k \in 1..Len(InitWorkers(s)) |-> NewWorker(InitWorkers(s)[k]) ]

\* BaseSupervisor.start, the workers it leaves: _initialize appends fresh
\* Worker objects to self.workers, then every worker in the list is started
supervisor_start(s) ==
  LET ws == workers[s] \o fresh_workers(s)
  IN [ k \in 1..Len(ws) |-> WorkerStart(ws[k]) ]

\* the tasks BaseSupervisor.start leaves running unreferenced: Worker.start
\* overwrites self.task of every worker already in the list
supervisor_start_orphans(s) ==
  orphans[s] + Cardinality({ i \in 1..Len(workers[s]) : TaskLive(workers[s][i].task) })

\* BaseSupervisor.stop, the workers it leaves: every worker is stopped
supervisor_stop(s) == [ k \in 1..Len(workers[s]) |-> WorkerStop(workers[s][k]) ]

\* the worker tasks that BaseSupervisor.stop cancels, in list order
RECURSIVE stop_cancels(_, _)
stop_cancels(s, i) ==
  IF i > Len(workers[s]) THEN << >>
  ELSE IF workers[s][i].task = "live"
    THEN << [ kind |-> "worker", sup |-> s, i |-> i ] >> \o stop_cancels(s, i + 1)
    ELSE stop_cancels(s, i + 1)

\* variant of the loop whose staleness test is `>=`
RECURSIVE workers_healthy_ge(_, _)
workers_healthy_ge(ws, i) ==
  IF i > Len(ws) THEN TRUE
  ELSE IF ~ws[i].healthy THEN FALSE
  ELSE IF now - ws[i].last_heartbeat >= HEARTBEAT_TIMEOUT THEN FALSE
  ELSE workers_healthy_ge(ws, i + 1)

\* aggregate health as the loop with early returns computes it
RECURSIVE workers_healthy(_, _)
workers_healthy(ws, i) ==
  IF i > Len(ws) THEN TRUE
  ELSE IF ~ws[i].healthy THEN FALSE
  ELSE IF now - ws[i].last_heartbeat > HEARTBEAT_TIMEOUT THEN FALSE
  ELSE workers_healthy(ws, i + 1)

is_healthy(s) ==
  IF ~healthy[s] THEN FALSE ELSE workers_healthy(workers[s], 1)

\* ------------------------------------------------------------- task states
\* names of tasks in the ready queue
WrapperTask(s) == [ kind |-> "wrapper", sup |-> s, i |-> 0 ]
WorkerTask(s, i) == [ kind |-> "worker", sup |-> s, i |-> i ]
OrphanTask(s) == [ kind |-> "orphan", sup |-> s, i |-> 0 ]
HealthTask == [ kind |-> "health", sup |-> 0, i |-> 0 ]

InReady(id) == \E k \in 1..Len(ready) : ready[k] = id

\* Task.cancel() was called on the wrapper of s and is not yet delivered
cancel_pending(s) == InReady(WrapperTask(s))

\* the cancelled task the loop wakes next: call_soon is first in, first out,
\* so tasks meet their CancelledError in the order cancel() was called
NextWoken(id) == Len(ready) > 0 /\ Head(ready) = id

WrapperAlive(t) == t \in {"pending", "run", "cooldown", "backoff"}

\* a wrapper that re-enters run() with started False never awaits again: the
\* single-threaded event loop never gets control back
Hung == \E s \in Sup : tasks[s] = "spin"

\* the event loop can switch tasks: the main task is suspended in its sleep,
\* or has returned and asyncio.run is draining the cancelled tasks
AtSuspension == mainpc \in {"blocking", "closing"} /\ ~Hung

\* --------------------------------------------------------------- KalshiBot
\* KalshiBot.start up to the call of start_all
BotStart ==
  /\ mainpc = "start"
  /\ running' = TRUE
  /\ mainpc' = "start_all"
  /\ idx' = 1
  /\ UNCHANGED << fatal, exitcode, started, healthy, workers, tasks,
                  ready, restart_count, health_check_task, now,
                  unhealthy, orphans, histVars >>

\* KalshiBot._signal_handler: runs in the main thread between any two
\* bytecodes once the handlers are registered
Signal ==
  /\ mainpc \in {"start_all", "blocking"}
  /\ running
  /\ running' = FALSE
  /\ UNCHANGED << mainpc, idx, fatal, exitcode, started, healthy, workers,
                  tasks, ready, restart_count, health_check_task,
                  now, unhealthy, orphans, histVars >>

\* where KalshiBot.start goes once start_all has returned: into the sleep of
\* `while self.running`, or past the loop into the finally clause
after_start_all == IF running THEN "blocking" ELSE "stop"

\* variant of start_all's loop that ends after its first iteration
start_all_done_early(i) == i >= 1

\* `for name, supervisor in self.supervisors.items()` has run its last
\* iteration
start_all_done(i) == i = NumSup

\* one iteration of start_all's loop whose supervisor.start() returns; the
\* last one also creates the health-check task and returns to KalshiBot.start
StartAllStep ==
  /\ mainpc = "start_all"
  /\ startLog' = Append(startLog, idx)
  /\ workers' = [ workers EXCEPT ![idx] = supervisor_start(idx) ]
  /\ orphans' = [ orphans EXCEPT ![idx] = supervisor_start_orphans(idx) ]
  /\ started' = [ started EXCEPT ![idx] = TRUE ]
  /\ tasks' = [ tasks EXCEPT ![idx] = "pending" ]
  /\ IF start_all_done(idx)
       THEN /\ health_check_task' = "sleeping"
            /\ mainpc' = after_start_all
            /\ idx' = 0
       ELSE /\ idx' = idx + 1
            /\ UNCHANGED << health_check_task, mainpc >>
  /\ UNCHANGED << running, fatal, exitcode, healthy, ready,
                  restart_count, now, unhealthy, stopLog, stop_raised,
                  start_error, restarts, streak, call, pipeVars >>

\* one iteration of start_all's loop whose supervisor.start() raises:
\* start_all re-raises, KalshiBot.start re-raises and runs its finally
StartAllRaises ==
  /\ mainpc = "start_all"
  /\ CanInitRaise(idx)
  /\ startLog' = Append(startLog, idx)
  /\ start_error' = idx
  /\ fatal' = TRUE
  /\ mainpc' = "stop"
  /\ idx' = 0
  /\ UNCHANGED << running, exitcode, started, healthy, workers, tasks,
                  ready, restart_count, health_check_task, now,
                  unhealthy, orphans, stopLog, stop_raised, restarts, streak, call, pipeVars >>

\* variant of KalshiBot.start without the finally clause: the loop ends and
\* start returns
BotWakeReturns ==
  /\ mainpc = "blocking"
  /\ ~Hung
  /\ ~running
  /\ mainpc' = "stopped"
  /\ UNCHANGED << running, idx, fatal, exitcode, started, healthy, workers,
                  tasks, ready, restart_count, health_check_task,
                  now, unhealthy, orphans, histVars >>

\* the main task wakes from asyncio.sleep(1) and tests self.running
BotWake ==
  /\ mainpc = "blocking"
  /\ ~Hung
  /\ ~running
  /\ mainpc' = "stop"
  /\ UNCHANGED << running, idx, fatal, exitcode, started, healthy, workers,
                  tasks, ready, restart_count, health_check_task,
                  now, unhealthy, orphans, histVars >>

\* KalshiBot.stop and the head of stop_all: the health-check task is
\* cancelled, then the reversed key list is built
BotStop ==
  /\ mainpc = "stop"
  /\ running' = FALSE
  /\ health_check_task' =
       IF health_check_task = "sleeping" THEN "cancelling" ELSE health_check_task
  /\ ready' = IF health_check_task = "sleeping" THEN Append(ready, HealthTask) ELSE ready
  /\ mainpc' = "stop_all"
  /\ idx' = 1
  /\ UNCHANGED << fatal, exitcode, started, healthy, workers, tasks,
                  restart_count, now, unhealthy, orphans, histVars >>

\* variant of the sweep order without reversed()
stop_all_forward == [ k \in 1..NumSup |-> k ]

\* reversed(list(self.supervisors.keys())): the sweep order of stop_all
stop_all_order == [ k \in 1..NumSup |-> NumSup + 1 - k ]

\* variant of the sweep without the try/except: the error leaves stop_all
stop_all_abort(k) == [ idx |-> k + 1, aborted |-> TRUE ]

\* what stop_all does when supervisor.stop() raised at position k of the
\* sweep: the except clause prints and the for loop goes on
stop_all_on_error(k) == [ idx |-> k + 1, aborted |-> FALSE ]

\* `if name in self.tasks: self.tasks[name].cancel()`: what it queues
cancel_wrapper(s) ==
  IF tasks[s] # "none" /\ WrapperAlive(tasks[s]) /\ ~cancel_pending(s)
    THEN << WrapperTask(s) >>
    ELSE << >>

\* one iteration of stop_all's loop whose supervisor.stop() returns
StopAllStep ==
  /\ mainpc = "stop_all"
  /\ LET s == stop_all_order[idx] IN
       /\ stopLog' = Append(stopLog, s)
       /\ workers' = [ workers EXCEPT ![s] = supervisor_stop(s) ]
       /\ started' = [ started EXCEPT ![s] = FALSE ]
       /\ ready' = ready \o stop_cancels(s, 1) \o cancel_wrapper(s)
  /\ idx' = idx + 1
  /\ mainpc' = IF idx < NumSup THEN "stop_all" ELSE "stopped"
  /\ UNCHANGED << running, fatal, exitcode, healthy, tasks, restart_count,
                  health_check_task, now, unhealthy, orphans, startLog,
                  stop_raised, start_error, restarts, streak, call, pipeVars >>

\* one iteration of stop_all's loop whose supervisor.stop() raises out of
\* _cleanup: the workers are already stopped, self.started = False and the
\* wrapper's cancel() are skipped
StopAllRaises ==
  /\ mainpc = "stop_all"
  /\ CanCleanupRaise(stop_all_order[idx])
  /\ LET s == stop_all_order[idx] IN
       /\ stopLog' = Append(stopLog, s)
       /\ stop_raised' = stop_raised \cup {s}
       /\ workers' = [ workers EXCEPT ![s] = supervisor_stop(s) ]
       /\ ready' = ready \o stop_cancels(s, 1)
  /\ LET r == stop_all_on_error(idx) IN
       /\ idx' = r.idx
       /\ mainpc' = IF r.aborted \/ r.idx > NumSup THEN "stopped" ELSE "stop_all"
       /\ fatal' = (fatal \/ r.aborted)
  /\ UNCHANGED << running, exitcode, started, healthy, tasks,
                  restart_count, health_check_task, now, unhealthy, orphans,
                  startLog, start_error, restarts, streak, call, pipeVars >>

\* asyncio.run's _cancel_all_tasks: every task not yet done is cancelled;
\* here, what that adds to the ready queue, supervisor by supervisor
RECURSIVE cancel_all_tasks(_)
cancel_all_tasks(s) ==
  IF s > NumSup THEN << >>
  ELSE stop_cancels(s, 1)
       \o cancel_wrapper(s)
       \o [ k \in 1..orphans[s] |-> OrphanTask(s) ]
       \o cancel_all_tasks(s + 1)

\* KalshiBot.start returns (or re-raises) into main(); asyncio.run then
\* cancels every task that is not done and runs the loop until all are
BotReturn ==
  /\ mainpc = "stopped"
  /\ mainpc' = "closing"
  /\ ready' = ready
              \o (IF health_check_task = "sleeping" THEN << HealthTask >> ELSE << >>)
              \o cancel_all_tasks(1)
  /\ workers' = [ s \in Sup |-> supervisor_stop(s) ]
  /\ health_check_task' =
       IF health_check_task = "sleeping" THEN "cancelling" ELSE health_check_task
  /\ UNCHANGED << running, idx, fatal, exitcode, started, healthy, tasks,
                  restart_count, now, unhealthy, orphans, histVars >>

AllTasksDone ==
  /\ \A s \in Sup : ~WrapperAlive(tasks[s]) /\ tasks[s] # "spin"
  /\ \A s \in Sup : \A i \in 1..Len(workers[s]) : ~TaskLive(workers[s][i].task)
  /\ \A s \in Sup : orphans[s] = 0
  /\ health_check_task \notin {"sleeping", "cancelling"}

\* main() after the loop is drained: sys.exit(1) if KalshiBot.start raised
exit_status == IF fatal THEN 1 ELSE 0

ProcessExit ==
  /\ mainpc = "closing"
  /\ AllTasksDone
  /\ mainpc' = "exited"
  /\ exitcode' = exit_status
  /\ UNCHANGED << running, idx, fatal, started, healthy, workers, tasks,
                  ready, restart_count, health_check_task, now,
                  unhealthy, orphans, histVars >>

Bot ==
  \/ BotStart
  \/ Signal
  \/ StartAllStep
  \/ StartAllRaises
  \/ BotWake
  \/ BotStop
  \/ StopAllStep
  \/ StopAllRaises
  \/ BotReturn
  \/ ProcessExit

\* ------------------------------------------- BaseSupervisor.run, the wrapper
\* supervisor.run() at its loop test: with started True it suspends inside
\* the try (in _main_loop or in sleep(1)); with started False it returns at
\* once, and so does every further call the wrapper's `while True` makes
run_enter(s) == IF started[s] THEN "run" ELSE "spin"

\* variant of run() without the `except Exception` clause
run_escapes == "escape"

\* run()'s handler for an exception out of _main_loop: `except Exception`
\* prints and suspends in sleep(5)
run_on_exception == "cooldown"

\* variant of the test with `>` for `>=`
give_up_late(count) == count > max_restarts

\* _run_supervisor's test after counting a crash
give_up(count) == count >= max_restarts

\* _run_supervisor's except clause: count the crash, then re-raise or
\* suspend in the backoff sleep
wrapper_on_crash(s) ==
  [ count |-> restart_count[s] + 1,
    task  |-> IF give_up(restart_count[s] + 1) THEN "failed" ELSE "backoff" ]

\* CancelledError thrown into the wrapper where it is suspended: before its
\* first step and in the two sleep(5) it ends the task; inside run()'s try it
\* is caught (`except asyncio.CancelledError: break`), run() returns normally
\* and the wrapper's `while True` calls run() again
wrapper_on_cancel(s) ==
  IF tasks[s] = "run" THEN run_enter(s) ELSE "cancelled"

\* the wrapper wakes in run(): first step of the task, or back from sleep(1)
WrapperRun(s) ==
  /\ AtSuspension
  /\ ~cancel_pending(s)
  /\ tasks[s] \in {"pending", "run"}
  /\ tasks' = [ tasks EXCEPT ![s] = run_enter(s) ]
  /\ UNCHANGED << botVars, started, healthy, workers, ready,
                  restart_count, health_check_task, now, unhealthy, orphans, histVars >>

\* RepoSupervisor._main_loop: the connection probe fails, the bare except
\* sets self.healthy = False; nothing sets it back
RepoProbeFails(s) ==
  /\ AtSuspension
  /\ ~cancel_pending(s)
  /\ SupName(s) = "repo"
  /\ tasks[s] \in {"pending", "run"}
  /\ started[s]
  /\ healthy' = [ healthy EXCEPT ![s] = FALSE ]
  /\ tasks' = [ tasks EXCEPT ![s] = "run" ]
  /\ UNCHANGED << botVars, started, workers, ready, restart_count,
                  health_check_task, now, unhealthy, orphans, histVars >>

\* the supervisors whose hooks have raised: crashed, or cooling down
Faulty == { t \in Sup : restart_count[t] > 0 \/ tasks[t] = "cooldown" }

\* the _main_loop hook raises an Exception inside run()'s try
MainLoopFails(s) ==
  /\ AtSuspension
  /\ ~cancel_pending(s)
  /\ tasks[s] \in {"pending", "run"}
  /\ started[s]
  /\ s \in Faulty \/ Cardinality(Faulty) < MaxFaulty
  /\ IF run_on_exception = "cooldown"
       THEN /\ tasks' = [ tasks EXCEPT ![s] = "cooldown" ]
            /\ UNCHANGED restart_count
       ELSE /\ tasks' = [ tasks EXCEPT ![s] = wrapper_on_crash(s).task ]
            /\ restart_count' = [ restart_count EXCEPT ![s] = wrapper_on_crash(s).count ]
  /\ UNCHANGED << botVars, started, healthy, workers, ready,
                  health_check_task, now, unhealthy, orphans, histVars >>

\* back from the cool-down sleep(5): the loop test again
CooldownDone(s) ==
  /\ AtSuspension
  /\ ~cancel_pending(s)
  /\ tasks[s] = "cooldown"
  /\ tasks' = [ tasks EXCEPT ![s] = run_enter(s) ]
  /\ UNCHANGED << botVars, started, healthy, workers, ready,
                  restart_count, health_check_task, now, unhealthy, orphans, histVars >>

\* an Exception escapes supervisor.run() into _run_supervisor
RunRaises(s) ==
  /\ AtSuspension
  /\ s \in Faulty \/ Cardinality(Faulty) < MaxFaulty
  /\ ~cancel_pending(s)
  /\ tasks[s] \in {"pending", "run", "cooldown"}
  /\ started[s]
  /\ tasks' = [ tasks EXCEPT ![s] = wrapper_on_crash(s).task ]
  /\ restart_count' = [ restart_count EXCEPT ![s] = wrapper_on_crash(s).count ]
  /\ streak' = [ streak EXCEPT ![s] = @ + 1 ]
  /\ UNCHANGED << botVars, started, healthy, workers, ready,
                  health_check_task, now, unhealthy, orphans, startLog,
                  stopLog, stop_raised, start_error, restarts, call, pipeVars >>

\* back from the backoff sleep(5): supervisor.start() returns and the
\* wrapper's loop calls run() again
BackoffDone(s) ==
  /\ AtSuspension
  /\ ~cancel_pending(s)
  /\ tasks[s] = "backoff"
  /\ workers' = [ workers EXCEPT ![s] = supervisor_start(s) ]
  /\ orphans' = [ orphans EXCEPT ![s] = supervisor_start_orphans(s) ]
  /\ started' = [ started EXCEPT ![s] = TRUE ]
  /\ restarts' = [ restarts EXCEPT ![s] = @ + 1 ]
  /\ tasks' = [ tasks EXCEPT ![s] = "run" ]
  /\ UNCHANGED << botVars, healthy, ready, restart_count,
                  health_check_task, now, unhealthy, startLog, stopLog,
                  stop_raised, start_error, streak, call, pipeVars >>

\* back from the backoff sleep(5): supervisor.start() raises inside the
\* except clause, so the exception leaves _run_supervisor uncounted
BackoffStartRaises(s) ==
  /\ AtSuspension
  /\ ~cancel_pending(s)
  /\ tasks[s] = "backoff"
  /\ CanInitRaise(s)
  /\ restarts' = [ restarts EXCEPT ![s] = @ + 1 ]
  /\ tasks' = [ tasks EXCEPT ![s] = "died" ]
  /\ UNCHANGED << botVars, started, healthy, workers, ready,
                  restart_count, health_check_task, now, unhealthy, orphans, startLog,
                  stopLog, stop_raised, start_error, streak, call, pipeVars >>

\* the event loop resumes a wrapper whose cancel() is pending
CancelDelivered(s) ==
  /\ AtSuspension
  /\ NextWoken(WrapperTask(s))
  /\ tasks' = [ tasks EXCEPT ![s] = IF WrapperAlive(@) THEN wrapper_on_cancel(s) ELSE @ ]
  /\ streak' = [ streak EXCEPT ![s] = IF tasks[s] = "run" THEN 0 ELSE @ ]
  /\ ready' = Tail(ready)
  /\ UNCHANGED << botVars, started, healthy, workers, restart_count,
                  health_check_task, now, unhealthy, orphans, startLog,
                  stopLog, stop_raised, start_error, restarts, call, pipeVars >>

Wrapper(s) ==
  \/ WrapperRun(s)
  \/ MainLoopFails(s)
  \/ CooldownDone(s)
  \/ RunRaises(s)
  \/ BackoffDone(s)
  \/ BackoffStartRaises(s)
  \/ CancelDelivered(s)

\* -------------------------------------------------------------- Worker.run
\* workers whose try body calls a collaborator that can raise
CanIterFail(cls) ==
  cls \in {"MarketIngestWorker", "MarketAnalysisWorker", "OpportunityMonitor"}

\* one pass of a worker's `while True` body that raises nothing before the
\* sleep.  DatabaseWorker: heartbeat(), then `asyncio.sleep` raises NameError
\* with no handler around it, which ends the task.
worker_iter_ok(w) ==
  IF Guarded(w.cls)
    THEN [ heartbeat(w) EXCEPT !.task = "live" ]
    ELSE [ heartbeat(w) EXCEPT !.task = "failed" ]

\* one pass whose try body raises: the except clause prints, heartbeat() is
\* skipped, the sleep after the try suspends the task
worker_iter_fail(w) == [ w EXCEPT !.task = "live" ]

WorkerIter(s, i) ==
  /\ AtSuspension
  /\ i \in 1..Len(workers[s])
  /\ workers[s][i].task = "live"
  /\ workers' = [ workers EXCEPT ![s][i] = worker_iter_ok(@) ]
  /\ UNCHANGED << botVars, started, healthy, tasks, ready,
                  restart_count, health_check_task, now, unhealthy, orphans, histVars >>

WorkerIterFails(s, i) ==
  /\ AtSuspension
  /\ i \in 1..Len(workers[s])
  /\ workers[s][i].task = "live"
  /\ CanIterFail(workers[s][i].cls)
  /\ workers' = [ workers EXCEPT ![s][i] = worker_iter_fail(@) ]
  /\ UNCHANGED << botVars, started, healthy, tasks, ready,
                  restart_count, health_check_task, now, unhealthy, orphans, histVars >>

\* CancelledError reaches a worker in its sleep: no handler catches it
WorkerCancelled(s, i) ==
  /\ AtSuspension
  /\ i \in 1..Len(workers[s])
  /\ NextWoken(WorkerTask(s, i))
  /\ workers' = [ workers EXCEPT ![s][i].task = "cancelled" ]
  /\ ready' = Tail(ready)
  /\ UNCHANGED << botVars, started, healthy, tasks,
                  restart_count, health_check_task, now, unhealthy, orphans,
                  histVars >>

\* a task that Worker.start left unreferenced is cancelled only by
\* asyncio.run's final sweep, and ends in its sleep
OrphanCancelled(s) ==
  /\ AtSuspension
  /\ NextWoken(OrphanTask(s))
  /\ orphans' = [ orphans EXCEPT ![s] = @ - 1 ]
  /\ ready' = Tail(ready)
  /\ UNCHANGED << botVars, started, healthy, workers, tasks,
                  restart_count, health_check_task, now, unhealthy, histVars >>

\* a supervisor's list holds one batch of InitWorkers per start() call
MaxWorkers == 2 * max_restarts

WorkerStep(s) ==
  \/ \E i \in 1..MaxWorkers :
       \/ WorkerIter(s, i)
       \/ WorkerIterFails(s, i)
       \/ WorkerCancelled(s, i)
  \/ OrphanCancelled(s)

\* ------------------------------------------------------ _health_check_loop
\* variant of the sweep that cancels the wrappers of what it reports
sweep_cancels == "cancel"

\* what the sweep does with its unhealthy list: `if unhealthy: print(...)`
sweep_on_unhealthy == "report"

\* one sweep after sleep(60): collect the supervisors whose is_healthy() is
\* False and print them
HealthSweep ==
  /\ AtSuspension
  /\ health_check_task = "sleeping"
  /\ unhealthy' = { s \in Sup : ~is_healthy(s) }
  /\ tasks' = IF sweep_on_unhealthy = "report"
                THEN tasks
                ELSE [ s \in Sup |-> IF is_healthy(s) THEN tasks[s] ELSE "cancelled" ]
  /\ UNCHANGED << botVars, started, healthy, workers, ready,
                  restart_count, health_check_task, now, orphans, histVars >>

HealthCancelled ==
  /\ AtSuspension
  /\ NextWoken(HealthTask)
  /\ health_check_task' = "cancelled"
  /\ ready' = Tail(ready)
  /\ UNCHANGED << botVars, started, healthy, workers, tasks,
                  restart_count, now, unhealthy, orphans, histVars >>

Next ==
  \/ Bot
  \/ \E s \in Sup : Wrapper(s)
  \/ \E s \in Sup : WorkerStep(s)
  \/ HealthCancelled

\* the lifecycle of the process: time and health stand still
Spec == Init /\ [][Next]_vars

\* what the event loop guarantees: a task that can take its next step takes
\* it.  Signals and raising hooks are the environment's and may never come.
MainTask ==
  \/ BotStart
  \/ StartAllStep
  \/ StartAllRaises
  \/ BotWake
  \/ BotStop
  \/ StopAllStep
  \/ StopAllRaises
  \/ BotReturn
  \/ ProcessExit

WrapperTaskStep(s) ==
  \/ WrapperRun(s)
  \/ CooldownDone(s)
  \/ BackoffDone(s)
  \/ BackoffStartRaises(s)
  \/ CancelDelivered(s)

WorkerTaskStep(s) ==
  \/ \E i \in 1..MaxWorkers : WorkerIter(s, i) \/ WorkerCancelled(s, i)
  \/ OrphanCancelled(s)

Fairness ==
  /\ WF_vars(MainTask)
  /\ \A s \in Sup : WF_vars(WrapperTaskStep(s))
  /\ \A s \in Sup : WF_vars(WorkerTaskStep(s))
  /\ WF_vars(HealthCancelled)

FairSpec == Init /\ [][Next]_vars /\ Fairness

\* the same with the main task's steps alone guaranteed
MainFairSpec == Init /\ [][Next]_vars /\ WF_vars(MainTask)

\* ---------------------------------------------------- health while running
\* datetime.now() moves on
Tick ==
  /\ now + TickStep <= MaxTicks * TickStep
  /\ now' = now + TickStep
  /\ UNCHANGED << botVars, started, healthy, workers, tasks, ready,
                  restart_count, health_check_task, unhealthy, orphans, histVars >>

\* the state start_all leaves when every start() returned and the main task
\* sleeps in `while self.running`, every wrapper inside run()
HealthInit ==
  /\ now = 0
  /\ running = TRUE
  /\ mainpc = "blocking"
  /\ idx = 0
  /\ fatal = FALSE
  /\ exitcode = -1
  /\ started = [ s \in Sup |-> TRUE ]
  /\ healthy = [ s \in Sup |-> TRUE ]
  /\ workers = [ s \in Sup |-> [ k \in 1..Len(InitWorkers(s)) |-> WorkerStart(fresh_workers(s)[k]) ] ]
  /\ tasks = [ s \in Sup |-> "run" ]
  /\ ready = << >>
  /\ restart_count = [ s \in Sup |-> 0 ]
  /\ health_check_task = "sleeping"
  /\ unhealthy = {}
  /\ orphans = [ s \in Sup |-> 0 ]
  /\ startLog = [ s \in Sup |-> s ]
  /\ stopLog = << >>
  /\ stop_raised = {}
  /\ start_error = 0
  /\ restarts = [ s \in Sup |-> 0 ]
  /\ streak = [ s \in Sup |-> 0 ]
  /\ call = NoCall
  /\ balance = InitialBalance
  /\ analysis = NewAnalysis
  /\ opportunities = << >>
  /\ active = << >>

HealthNext ==
  \/ Tick
  \/ \E s \in Sup : \E i \in 1..MaxWorkers : WorkerIter(s, i)
  \/ \E s \in Sup : \E i \in 1..MaxWorkers : WorkerIterFails(s, i)
  \/ \E s \in Sup : RepoProbeFails(s)
  \/ \E s \in Sup : WrapperRun(s)
  \/ HealthSweep

\* heartbeats, staleness and the health sweep of a running process
HealthSpec == HealthInit /\ [][HealthNext]_vars

\* ----------------------------------------------------------- PositionSizer
\* Units: capital and current_exposure in cents; max_position_pct,
\* max_total_exposure and kelly_fraction in percent; last_price in cents;
\* score in points; the edge sub-score in twentieths, the risk and liquidity
\* sub-scores in tenths; the returned size in whole dollars.  The arithmetic
\* is exact where the code's is floating point.

\* d.get(key, default) on a dict d: a market, a breakdown
get(d, key, default) ==
  IF key \in DOMAIN d THEN d[key] ELSE default

\* the outcome of a call that ends in an exception
Raised == [ exception |-> "KeyError" ]

\* d[key] for each key of keys raises KeyError when d lacks one of them
KeyError(d, keys) ==
  \E key \in keys : key \notin DOMAIN d

\* variant in which the price is read as market['last_price']
subscripts_price == { "last_price" }

\* the keys that score_market and calculate_position read as d[key], without
\* a default: every read of the market and of the breakdown is a d.get
subscripts == { }

\* PositionSizer.__init__ defaults
max_total_exposure == 60
kelly_fraction == 25
min_bet == 2

Min(a, b) == IF a < b THEN a ELSE b
Max(a, b) == IF a > b THEN a ELSE b

\* capital * max_total_exposure - current_exposure, in hundredths of a cent
max_exposure_left(sizer, current_exposure) ==
  sizer.capital * max_total_exposure - current_exposure * 100

\* variant of the liquidity test with a lower threshold
poor_liquidity_lax(liquidity_score) == liquidity_score < 1

\* the four rejections ahead of the Kelly computation
at_max_exposure(left) == left < min_bet * 10000
score_too_low(score) == score < 40
insufficient_edge(edge_score) == edge_score < 6
poor_liquidity(liquidity_score) == liquidity_score < 2

\* variant of the last test that lets every amount through
position_too_small_never(amount) == FALSE

\* `if adjusted_amount < self.min_bet`, on the floored amount
position_too_small(amount) == amount < min_bet

\* confidence_multipliers.get(confidence, 0.75), in quarters
confidence_mult(confidence) ==
  CASE confidence = "low"    -> 2
    [] confidence = "medium" -> 3
    [] confidence = "high"   -> 4
    [] OTHER                 -> 3

\* variant of the constraints without the exposure constraint
capped_by_position(amount, max_position, exposure_left) ==
  Min(amount, max_position)

\* the max position constraint, then the max exposure constraint
capped(amount, max_position, exposure_left) ==
  Min(Min(amount, max_position), exposure_left)

\* PositionSizer.calculate_position: [size, reason].  math.floor is taken of
\* each of the three amounts before the two min(), which gives the same
\* integer as the floor of their minimum.
calculate_position(sizer, market, score, confidence, breakdown, current_exposure) ==
  LET left == max_exposure_left(sizer, current_exposure)
      yes_price == get(market, "last_price", 50)
      edge_score == get(breakdown, "edge", 0)
      risk_score == get(breakdown, "risk", 0)
      liquidity_score == get(breakdown, "liquidity", 0)
      \* (edge_score - 0.3) * 20, in cents
      edge_adjustment == edge_score - 6
      true_prob == Max(0, Min(100, yes_price + edge_adjustment))
      direction == IF true_prob > yes_price THEN "YES" ELSE "NO"
      \* in hundredths
      edge == IF direction = "YES"
                THEN true_prob - yes_price
                ELSE (100 - true_prob) - (100 - yes_price)
      \* capital/100 * edge/100 * kelly_fraction/100 * mult/4 * (0.8 + risk * 0.4)
      adjusted_amount ==
        (sizer.capital * edge * kelly_fraction * confidence_mult(confidence)
           * (20 + risk_score)) \div 100000000
      max_position == (sizer.capital * sizer.max_position_pct) \div 10000
      amount == capped(adjusted_amount, max_position, left \div 10000)
  IN IF at_max_exposure(left)
       THEN [ size |-> 0, reason |-> "No capital available" ]
     ELSE IF score_too_low(score)
       THEN [ size |-> 0, reason |-> "Score too low" ]
     ELSE IF insufficient_edge(edge_score)
       THEN [ size |-> 0, reason |-> "Insufficient edge" ]
     ELSE IF poor_liquidity(liquidity_score)
       THEN [ size |-> 0, reason |-> "Poor liquidity" ]
     ELSE IF edge <= 0
       THEN [ size |-> 0, reason |-> "No positive edge" ]
     ELSE IF position_too_small(amount)
       THEN [ size |-> 0, reason |-> "Position too small" ]
     ELSE [ size |-> amount, reason |-> direction ]

\* the arguments the calls are drawn from
SizerCapitals == { 6613, 20000 }
SizerPositionPcts == { 2, 15 }
SizerPrices == { 5, 45, 60, 95 }
SizerScores == { 35, 40, 75 }
SizerConfidences == { "low", "medium", "high", "unknown" }
SizerEdges == { 4, 6, 8, 12, 20 }
SizerRisks == { 0, 8, 10 }
SizerLiquidities == { 1, 2, 9 }
SizerExposures == { 0, 3800, 11700, 15000 }

processVars ==
  << running, mainpc, idx, fatal, exitcode, started, healthy, workers, tasks,
     ready, restart_count, health_check_task, now, unhealthy, orphans,
     startLog, stopLog, stop_raised, start_error, restarts, streak >>

\* one call of calculate_position on a PositionSizer built for it
CalculatePosition ==
  /\ call = NoCall
  /\ \E capital \in SizerCapitals, pct \in SizerPositionPcts,
        price \in SizerPrices, score \in SizerScores,
        confidence \in SizerConfidences, edge \in SizerEdges,
        risk \in SizerRisks, liquidity \in SizerLiquidities,
        current_exposure \in SizerExposures :
       LET sizer == [ capital |-> capital, max_position_pct |-> pct ]
           market == [ last_price |-> price ]
           breakdown == [ edge |-> edge, risk |-> risk, liquidity |-> liquidity ]
       IN call' = [ fn |-> "calculate_position",
                    sizer |-> sizer,
                    market |-> market,
                    score |-> score,
                    confidence |-> confidence,
                    breakdown |-> breakdown,
                    current_exposure |-> current_exposure,
                    result |-> IF KeyError(market, subscripts) \/ KeyError(breakdown, subscripts)
                                 THEN Raised
                                 ELSE calculate_position(sizer, market, score, confidence,
                                                         breakdown, current_exposure) ]
  /\ UNCHANGED << processVars, pipeVars >>

\* the market and breakdown keys a sizing call may lack
SizerMissing ==
  { {"last_price"}, {"edge"}, {"risk"}, {"liquidity"}, {"last_price", "risk"},
    {"last_price", "edge", "risk", "liquidity"} }

\* one call of calculate_position with keys missing from the market or the
\* breakdown
CalculatePositionPartial ==
  /\ call = NoCall
  /\ \E confidence \in SizerConfidences, current_exposure \in SizerExposures,
        score \in SizerScores, missing \in SizerMissing :
       LET sizer == [ capital |-> 20000, max_position_pct |-> 15 ]
           market == [ k \in {"last_price"} \ missing |-> 45 ]
           breakdown == [ k \in {"edge", "risk", "liquidity"} \ missing |->
                            IF k = "edge" THEN 20 ELSE 9 ]
       IN call' = [ fn |-> "calculate_position",
                    sizer |-> sizer,
                    market |-> market,
                    score |-> score,
                    confidence |-> confidence,
                    breakdown |-> breakdown,
                    current_exposure |-> current_exposure,
                    result |-> IF KeyError(market, subscripts) \/ KeyError(breakdown, subscripts)
                                 THEN Raised
                                 ELSE calculate_position(sizer, market, score, confidence,
                                                         breakdown, current_exposure) ]
  /\ UNCHANGED << processVars, pipeVars >>

\* every price a market can trade at, in cents, and every edge sub-score in
\* twentieths
CentPrices == 0..100
EdgeScores == 0..20

\* one call of calculate_position that passes the score, liquidity and
\* exposure tests, at any price and edge
CalculatePositionAtPrice ==
  /\ call = NoCall
  /\ \E price \in CentPrices, edge \in EdgeScores, confidence \in { "low", "high" } :
       LET sizer == [ capital |-> 20000, max_position_pct |-> 15 ]
           market == [ last_price |-> price ]
           breakdown == [ edge |-> edge, risk |-> 10, liquidity |-> 9 ]
       IN call' = [ fn |-> "calculate_position",
                    sizer |-> sizer,
                    market |-> market,
                    score |-> 75,
                    confidence |-> confidence,
                    breakdown |-> breakdown,
                    current_exposure |-> 0,
                    result |-> calculate_position(sizer, market, 75, confidence,
                                                  breakdown, 0) ]
  /\ UNCHANGED << processVars, pipeVars >>

\* ------------------------------------------------------------- MarketScorer
\* A market is a function from the keys it carries to their values; a key it
\* lacks is read with dict.get's default.  Prices in cents, volume in dollars,
\* close_time as the form of the timestamp string and the whole days from the
\* time of the call to the moment it names, cap_strike
\* present only on a non-binary market.  A sub-score s is held as the integer
\* s * ScoreUnit, the total as total * ScoreUnit; the markets drawn make every
\* division below exact.
ScoreUnit == 30000

\* variant of the weight table with a heavier liquidity weight
WEIGHTS_heavy ==
  [ liquidity |-> 30, edge |-> 35, timeframe |-> 20, volatility |-> 10, risk |-> 10 ]

\* MarketScorer.WEIGHTS, in percent
WEIGHTS ==
  [ liquidity |-> 25, edge |-> 35, timeframe |-> 20, volatility |-> 10, risk |-> 10 ]

\* variant of the spread score that treats every book as locked
spread_score_locked(spread) ==
  0

\* 0 if spread == 0 else max(0, 1.0 - spread / 10.0)
spread_score(spread) ==
  IF spread = 0 THEN 0 ELSE Max(0, ScoreUnit - spread * (ScoreUnit \div 10))

_score_liquidity(market) ==
  LET volume == get(market, "volume_24h", 0)
      open_interest == get(market, "open_interest", 0)
      yes_bid == get(market, "yes_bid", 0)
      yes_ask == get(market, "yes_ask", 100)
      volume_score == Min(ScoreUnit, (volume * ScoreUnit) \div 5000)
      oi_score == Min(ScoreUnit, (open_interest * (ScoreUnit \div 10)) \div 1000)
      spread == yes_ask - yes_bid
  IN (volume_score * 5 + spread_score(spread) * 3 + oi_score * 2) \div 10

\* str.lower() on the category and ticker strings drawn
lower(text) ==
  CASE text = "Economics"      -> "economics"
    [] text = "World Politics" -> "world politics"
    [] text = "KXSPORTS-24"    -> "kxsports-24"
    [] text = "KXWEATHER-ECONOMICS" -> "kxweather-economics"
    [] text = "ECON-GDP"       -> "econ-gdp"
    [] text = "ECON-JOBS"      -> "econ-jobs"
    [] text = "ECON-RATE"      -> "econ-rate"
    [] OTHER                   -> text

\* `cat in text`: the edge categories that are substrings of a lower-case
\* string drawn
categories_in(text) ==
  CASE text = "sports"              -> { "sports" }
    [] text = "politics"            -> { "politics" }
    [] text = "economics"           -> { "economics" }
    [] text = "weather"             -> { "weather" }
    [] text = "entertainment"       -> { "entertainment" }
    [] text = "world politics"      -> { "politics" }
    [] text = "kxsports-24"         -> { "sports" }
    [] text = "kxweather-economics" -> { "weather", "economics" }
    [] OTHER                        -> { }

\* edge_categories in the order of the dict literal, scores in tenths
edge_categories ==
  << [ cat |-> "sports", score |-> 3 ], [ cat |-> "politics", score |-> 4 ],
     [ cat |-> "economics", score |-> 5 ], [ cat |-> "weather", score |-> 2 ],
     [ cat |-> "entertainment", score |-> 2 ] >>

\* variant of the loop without the break: the last match stands
last_match(hits) == CHOOSE k \in hits : \A j \in hits : j <= k

\* `for cat, score in edge_categories.items(): if ...: base_edge = score;
\* break`: the first match stands
first_match(hits) == CHOOSE k \in hits : \A j \in hits : k <= j

\* the base edge of a market: 0.3 unless a category is found in the category
\* or in the ticker
base_edge(category, ticker) ==
  LET hits == { k \in DOMAIN edge_categories :
                  \/ edge_categories[k].cat \in categories_in(category)
                  \/ edge_categories[k].cat \in categories_in(ticker) }
  IN IF hits = { }
       THEN 3 * (ScoreUnit \div 10)
       ELSE edge_categories[first_match(hits)].score * (ScoreUnit \div 10)

_score_edge(market) ==
  LET yes_price == get(market, "last_price", 50)
      category == lower(get(market, "category", ""))
      ticker == lower(get(market, "ticker", ""))
      \* (20 - yes_price) / 20 * 0.3
      price_edge == IF yes_price < 20 THEN ((20 - yes_price) * 3 * ScoreUnit) \div 200
                    ELSE IF yes_price > 80 THEN ((yes_price - 80) * 3 * ScoreUnit) \div 200
                    ELSE 0
  IN Min(ScoreUnit, base_edge(category, ticker) + price_edge)

\* datetime.fromisoformat(close_time_str.replace('Z', '+00:00')) and
\* (close_time - datetime.now()).days: fromisoformat raises ValueError on a
\* string that is no ISO timestamp; a timestamp with 'Z' or a UTC offset parses
\* to an aware datetime, and subtracting the naive datetime.now() from it
\* raises TypeError
days_until(close_time_str) ==
  IF close_time_str.form = "naive"
    THEN [ raised |-> FALSE, days |-> close_time_str.days ]
    ELSE [ raised |-> TRUE, days |-> 0 ]

_score_timeframe(market) ==
  IF "close_time" \notin DOMAIN market
    THEN 3 * (ScoreUnit \div 10)
  ELSE IF days_until(market["close_time"]).raised
    THEN 3 * (ScoreUnit \div 10)
    ELSE LET days_left == days_until(market["close_time"]).days
         IN IF days_left < 3 THEN 2 * (ScoreUnit \div 10)
            ELSE IF days_left < 7 THEN 5 * (ScoreUnit \div 10)
            ELSE IF days_left < 14 THEN 8 * (ScoreUnit \div 10)
            ELSE IF days_left < 30 THEN ScoreUnit
            ELSE IF days_left < 60 THEN 7 * (ScoreUnit \div 10)
            ELSE IF days_left < 90 THEN 5 * (ScoreUnit \div 10)
            ELSE 3 * (ScoreUnit \div 10)

_score_volatility(market) ==
  LET yes_price == get(market, "last_price", 50)
      distance_from_50 == IF yes_price >= 50 THEN yes_price - 50 ELSE 50 - yes_price
      volatility == ScoreUnit - (distance_from_50 * ScoreUnit) \div 50
      volume_24h == get(market, "volume_24h", 0)
  IN IF volume_24h > 2000
       THEN Min(ScoreUnit, (volatility * 12) \div 10)
       ELSE volatility

_score_risk(market) ==
  LET yes_price == get(market, "last_price", 50)
      is_binary == "cap_strike" \notin DOMAIN market
      binary_bonus == IF is_binary THEN 3 * (ScoreUnit \div 10) ELSE 0
      price_risk == IF yes_price < 30 THEN ScoreUnit - (yes_price * ScoreUnit) \div 30
                    ELSE IF yes_price > 70
                      THEN ScoreUnit - ((100 - yes_price) * ScoreUnit) \div 30
                    ELSE ScoreUnit \div 2
      liquidity == _score_liquidity(market)
  IN (price_risk * 4 + liquidity * 4 + binary_bonus * 2) \div 10

\* variant of the labels with the thresholds included
_calculate_confidence_ge(scores) ==
  IF scores.liquidity * 10 >= 6 * ScoreUnit /\ scores.edge * 10 >= 5 * ScoreUnit
    THEN "high"
  ELSE IF scores.liquidity * 10 <= 3 * ScoreUnit \/ scores.edge * 10 <= 3 * ScoreUnit
    THEN "low"
  ELSE "medium"

_calculate_confidence(scores) ==
  IF scores.liquidity * 10 > 6 * ScoreUnit /\ scores.edge * 10 > 5 * ScoreUnit
    THEN "high"
  ELSE IF scores.liquidity * 10 < 3 * ScoreUnit \/ scores.edge * 10 < 3 * ScoreUnit
    THEN "low"
  ELSE "medium"

\* score_market's weighted total: (sum of score * weight) * 100, the weights
\* being in percent
total_score(scores) ==
  scores.liquidity * WEIGHTS.liquidity
    + scores.edge * WEIGHTS.edge
    + scores.timeframe * WEIGHTS.timeframe
    + scores.volatility * WEIGHTS.volatility
    + scores.risk * WEIGHTS.risk

\* MarketScorer.score_market: [total, confidence, breakdown]
score_market(market) ==
  LET scores == [ liquidity  |-> _score_liquidity(market),
                  edge       |-> _score_edge(market),
                  timeframe  |-> _score_timeframe(market),
                  volatility |-> _score_volatility(market),
                  risk       |-> _score_risk(market) ]
  IN [ total |-> total_score(scores),
       confidence |-> _calculate_confidence(scores),
       breakdown |-> scores ]

\* the market dict with one key set (dict(market, key=value))
with(market, key, value) ==
  [ k \in DOMAIN market \cup {key} |-> IF k = key THEN value ELSE market[k] ]

\* the markets the calls are drawn from
MarketKeys ==
  { "volume_24h", "open_interest", "yes_bid", "yes_ask", "last_price",
    "close_time", "category", "cap_strike" }
MarketVolumes == { 0, 1000, 2500, 5000, 8000 }
MarketOpenInterests == { 0, 5000, 20000 }
\* <<yes_bid, yes_ask>>: wide, tight, locked, crossed by 2 and by 20 cents
MarketQuotes == { <<0, 100>>, <<48, 52>>, <<50, 50>>, <<51, 49>>, <<60, 40>> }
MarketPrices == { 0, 10, 45, 50, 90, 100 }
MarketDaysLeft == { 2, 3, 6, 7, 10, 13, 14, 29, 30, 59, 60, 89, 90 }
\* a timestamp without offset, one with 'Z' or an offset, not a timestamp
MarketCloseForms == { "naive", "aware", "garbage" }
MarketCategories == { "", "politics", "economics" }
\* the keys a market may lack: none, the strike, the close time, the quotes, all
MarketMissing ==
  { {"cap_strike"}, {}, {"cap_strike", "close_time"},
    {"cap_strike", "yes_bid", "yes_ask"}, MarketKeys }

\* one call of score_market
ScoreMarket ==
  /\ call = NoCall
  /\ \E volume \in MarketVolumes, open_interest \in MarketOpenInterests,
        quote \in MarketQuotes, price \in MarketPrices,
        days \in MarketDaysLeft, form \in MarketCloseForms,
        category \in MarketCategories,
        missing \in MarketMissing :
       LET full == [ volume_24h |-> volume,
                     open_interest |-> open_interest,
                     yes_bid |-> quote[1],
                     yes_ask |-> quote[2],
                     last_price |-> price,
                     close_time |-> [ form |-> form,
                                      days |-> IF form = "garbage" THEN 0 ELSE days ],
                     category |-> category,
                     cap_strike |-> 50 ]
           market == [ k \in MarketKeys \ missing |-> full[k] ]
       IN call' = [ fn |-> "score_market",
                    market |-> market,
                    result |-> IF KeyError(market, subscripts)
                                 THEN Raised
                                 ELSE score_market(market) ]
  /\ UNCHANGED << processVars, pipeVars >>

\* the categories, tickers and prices the calls of _score_edge are drawn from
EdgeCategories ==
  { "", "sports", "politics", "Economics", "weather", "entertainment",
    "World Politics", "crypto" }
EdgeTickers == { "", "KXSPORTS-24", "KXWEATHER-ECONOMICS", "ECON-GDP" }
EdgePrices == 0..100 \cup { 140 }

\* one call of _score_edge; a market may lack any of the three keys read
ScoreEdge ==
  /\ call = NoCall
  /\ \E category \in EdgeCategories, ticker \in EdgeTickers, price \in EdgePrices,
        missing \in SUBSET { "category", "ticker", "last_price" } :
       LET full == [ category |-> category, ticker |-> ticker, last_price |-> price ]
           market == [ k \in DOMAIN full \ missing |-> full[k] ]
       IN call' = [ fn |-> "_score_edge",
                    market |-> market,
                    result |-> _score_edge(market) ]
  /\ UNCHANGED << processVars, pipeVars >>

\* __main__'s test_markets (ticker and title match no edge category and are
\* left out); elapsed is 1 when the clock has advanced between the
\* datetime.now() that built close_time and the one in _score_timeframe
test_markets(elapsed) ==
  << [ category |-> "sports", last_price |-> 65, yes_bid |-> 64, yes_ask |-> 66,
       volume_24h |-> 15000, open_interest |-> 50000,
       close_time |-> [ form |-> "naive", days |-> 10 - elapsed ] ],
     [ category |-> "economics", last_price |-> 42, yes_bid |-> 40, yes_ask |-> 44,
       volume_24h |-> 3000, open_interest |-> 8000,
       close_time |-> [ form |-> "naive", days |-> 45 - elapsed ] ] >>

\* one call of score_market on one of the test markets
ScoreTestMarket ==
  /\ call = NoCall
  /\ \E elapsed \in {0, 1} : \E i \in DOMAIN test_markets(elapsed) :
       LET market == test_markets(elapsed)[i]
       IN call' = [ fn |-> "score_market",
                    market |-> market,
                    result |-> IF KeyError(market, subscripts)
                                 THEN Raised
                                 ELSE score_market(market) ]
  /\ UNCHANGED << processVars, pipeVars >>

\* list.sort(key=lambda x: x[1], reverse=True), as an insertion sort: stable,
\* an entry goes behind the entries whose score is not lower
RECURSIVE insert_descending(_, _)
insert_descending(entry, sorted) ==
  IF sorted = << >>
    THEN << entry >>
  ELSE IF Head(sorted).score >= entry.score
    THEN << Head(sorted) >> \o insert_descending(entry, Tail(sorted))
  ELSE << entry >> \o sorted

\* variant of rank_markets' sort that leaves the list as it is
unsorted(scored) ==
  scored

RECURSIVE sort_descending(_)
sort_descending(scored) ==
  IF scored = << >>
    THEN << >>
    ELSE insert_descending(scored[Len(scored)],
                           sort_descending(SubSeq(scored, 1, Len(scored) - 1)))

\* MarketScorer.rank_markets: (market, score, confidence, breakdown) entries
rank_markets(markets) ==
  LET scored == [ k \in 1..Len(markets) |->
                    LET r == score_market(markets[k])
                    IN [ market |-> markets[k],
                         score |-> r.total,
                         confidence |-> r.confidence,
                         breakdown |-> r.breakdown ] ]
  IN sort_descending(scored)

\* longest list of markets ranked
MaxMarkets == 3

\* the markets the lists are made of: the two test markets, a market without
\* any field, one that only has a category and one with a crossed book
RankPool ==
  { test_markets(1)[1], test_markets(1)[2],
    [ k \in {} |-> 0 ],
    [ category |-> "politics" ],
    [ yes_bid |-> 60, yes_ask |-> 40, volume_24h |-> 5000, open_interest |-> 20000 ] }

\* one call of rank_markets
RankMarkets ==
  /\ call = NoCall
  /\ \E n \in 0..MaxMarkets : \E markets \in [ 1..n -> RankPool ] :
       call' = [ fn |-> "rank_markets",
                 markets |-> markets,
                 result |-> rank_markets(markets) ]
  /\ UNCHANGED << processVars, pipeVars >>

\* the sub-scores the weighted total is taken of: 0, one half and 1
SubScores == { 0, ScoreUnit \div 2, ScoreUnit }

\* one evaluation of score_market's weighted total
WeighScores ==
  /\ call = NoCall
  /\ \E scores \in [ DOMAIN WEIGHTS -> SubScores ] :
       call' = [ fn |-> "total_score",
                 scores |-> scores,
                 result |-> total_score(scores) ]
  /\ UNCHANGED << processVars, pipeVars >>

PureNext ==
  \/ CalculatePositionAtPrice
  \/ ScoreEdge
  \/ CalculatePosition
  \/ CalculatePositionPartial
  \/ WeighScores
  \/ ScoreMarket
  \/ ScoreTestMarket
  \/ RankMarkets

\* calls of the scoring and sizing functions, the process not started
PureSpec == Init /\ [][PureNext]_vars

\* ------------------------------------------------------ decision pipeline
\* MarketsSupervisor's two workers with their collaborators: the capital
\* supervisor's get_balance / get_total_exposure, the ingest supervisor's
\* fetch_active_markets and the repo supervisor's opportunities table.  The
\* awaited collaborator coroutines never suspend, so one pass of a worker's
\* loop, from one sleep to the next, is one action.

\* rows the opportunities table may hold
MaxRows == 2

\* the balances get_balance may report.  CapitalSupervisor.get_balance is a
\* stub that returns 66.13 until it queries the exchange; the workers only
\* see the collaborator's interface
Balances == { InitialBalance, 50000 }

\* the account balance moves as positions are opened and closed
BalanceChanges ==
  /\ \E b \in Balances \ {balance} : balance' = b
  /\ UNCHANGED << processVars, call, analysis, opportunities, active >>

\* the markets fetch_active_markets may return, with scores 64, 48 and 50;
\* they differ in the days to their close
PipelineMarkets ==
  << [ ticker |-> "ECON-GDP", title |-> "GDP growth", category |-> "economics",
       last_price |-> 50, yes_bid |-> 0, yes_ask |-> 100, volume_24h |-> 5000,
       open_interest |-> 0, cap_strike |-> 3,
       close_time |-> [ form |-> "naive", days |-> 20 ] ],
     [ ticker |-> "ECON-JOBS", title |-> "Jobs report", category |-> "economics",
       last_price |-> 50, yes_bid |-> 0, yes_ask |-> 100, volume_24h |-> 5000,
       open_interest |-> 0, cap_strike |-> 3,
       close_time |-> [ form |-> "naive", days |-> 2 ] ],
     [ ticker |-> "ECON-RATE", title |-> "Rate cut", category |-> "economics",
       last_price |-> 50, yes_bid |-> 0, yes_ask |-> 100, volume_24h |-> 5000,
       open_interest |-> 0, cap_strike |-> 3,
       close_time |-> [ form |-> "naive", days |-> 100 ] ] >>

\* what fetch_active_markets returns: [] without client or when get_markets
\* raises (caught at the call site), else the markets
FetchedMarkets ==
  { << >>, << PipelineMarkets[1] >>, << PipelineMarkets[2], PipelineMarkets[1] >>,
    << PipelineMarkets[1], PipelineMarkets[1] >>, << PipelineMarkets[3] >>,
    << PipelineMarkets[3], PipelineMarkets[1] >> }

\* a ranked entry's score and breakdown in the sizer's units (points,
\* twentieths, tenths); exact for PipelineMarkets
sizing_score(entry) == entry.score \div ScoreUnit
sizing_breakdown(entry) ==
  [ edge |-> (entry.breakdown.edge * 20) \div ScoreUnit,
    risk |-> (entry.breakdown.risk * 10) \div ScoreUnit,
    liquidity |-> (entry.breakdown.liquidity * 10) \div ScoreUnit ]

\* `if not self.scorer or not self.sizer`: the sizer is built from the
\* balance on the first pass that gets this far and kept from then on;
\* update_capital is never called
sizer_for_pass(sizer, read) ==
  IF sizer = << >>
    THEN << [ capital |-> read, max_position_pct |-> 15 ] >>
    ELSE sizer

\* `if score >= 50`
decent_score(score) == score >= 50 * ScoreUnit

\* variant of the loop that appends whatever the size
worth_storing_any(size) == TRUE

\* `if size > 0`
worth_storing(size) == size > 0

\* the sum of the position sizes of a list of opportunities, in dollars
RECURSIVE total_position_size(_)
total_position_size(opps) ==
  IF opps = << >> THEN 0
  ELSE Head(opps).position_size + total_position_size(Tail(opps))

\* the opportunities of one pass: ranked entries with score >= 50 whose size
\* is positive; every entry is sized against the one current_exposure read
\* at the head of the pass
RECURSIVE sized_opportunities(_, _, _)
sized_opportunities(ranked, sizer, current_exposure) ==
  IF ranked = << >>
    THEN << >>
    ELSE LET entry == Head(ranked)
             sized == calculate_position(sizer, entry.market, sizing_score(entry),
                                         entry.confidence, sizing_breakdown(entry),
                                         current_exposure)
             rest == sized_opportunities(Tail(ranked), sizer, current_exposure)
         IN IF decent_score(entry.score) /\ worth_storing(sized.size)
              THEN << [ market |-> entry.market, score |-> entry.score,
                        position_size |-> sized.size ] >> \o rest
              ELSE rest

\* the second in which the newest row was stored
last_created_at(table) ==
  IF table = << >> THEN 0 ELSE table[Len(table)].created_at

\* the second in which a pass stores: passes are separated by sleep(60)
next_pass_time(table) ==
  last_created_at(table) + 60

\* RepoSupervisor.store_opportunities: one INSERT per opportunity, status by
\* the column default 'active', id by AUTOINCREMENT, created_at by the
\* column default CURRENT_TIMESTAMP, which counts whole seconds: timestamp
\* is the second in which the loop runs
store_opportunities(table, opps, timestamp) ==
  table \o [ k \in 1..Len(opps) |->
               [ id |-> Len(table) + k,
                 created_at |-> timestamp,
                 market_id |-> get(opps[k].market, "id", get(opps[k].market, "ticker", "")),
                 score |-> opps[k].score,
                 position_size |-> opps[k].position_size,
                 status |-> "active" ] ]

\* variant of the pass in which an exception leaves run() and ends the task
on_exception_ends == "ended"

\* `except Exception` around the body of the pass: print, traceback, then
\* the sleep(60) after the try and the next pass
on_exception == "error"

\* the exposures get_total_exposure may report, in cents.  Like get_balance
\* it is a stub (0.0) until it queries the exchange
Exposures == { 0, 29500 }

\* one pass of MarketAnalysisWorker.run; raises names the collaborator call
\* that raises in this pass, if any (fetch_active_markets catches its own)
AnalysisPass ==
  /\ analysis.last.outcome # "ended"
  /\ \E raises \in { "none", "get_balance", "get_total_exposure", "store_opportunities" },
        current_exposure \in Exposures,
        markets \in FetchedMarkets :
       LET read == balance
           sizer == sizer_for_pass(analysis.sizer, read)
           opps == sized_opportunities(rank_markets(markets), sizer[1], current_exposure)
       IN IF raises \in { "get_balance", "get_total_exposure" }
            THEN /\ analysis' = [ analysis EXCEPT !.last =
                                    [ outcome |-> on_exception, raised |-> raises,
                                      heartbeat |-> FALSE ] ]
                 /\ UNCHANGED opportunities
          ELSE IF markets = << >>
            THEN /\ analysis' = [ sizer |-> sizer,
                                  last |-> [ outcome |-> "no_markets", balance |-> read,
                                             heartbeat |-> TRUE ] ]
                 /\ UNCHANGED opportunities
          ELSE IF opps = << >>
            THEN /\ analysis' = [ sizer |-> sizer,
                                  last |-> [ outcome |-> "sized", balance |-> read,
                                             capital |-> sizer[1].capital, stored |-> 0,
                                             exposure |-> current_exposure,
                                             recommended |-> 0,
                                             store_called |-> FALSE,
                                             heartbeat |-> TRUE ] ]
                 /\ UNCHANGED opportunities
          ELSE IF raises = "store_opportunities"
            THEN /\ analysis' = [ sizer |-> sizer,
                                  last |-> [ outcome |-> on_exception, raised |-> raises,
                                             heartbeat |-> FALSE ] ]
                 /\ UNCHANGED opportunities
          ELSE /\ Len(opportunities) + Len(opps) <= MaxRows
               /\ opportunities' = store_opportunities(opportunities, opps, next_pass_time(opportunities))
               /\ analysis' = [ sizer |-> sizer,
                                last |-> [ outcome |-> "sized", balance |-> read,
                                           capital |-> sizer[1].capital,
                                           stored |-> Len(opps),
                                           exposure |-> current_exposure,
                                           recommended |-> total_position_size(opps),
                                           store_called |-> TRUE,
                                           heartbeat |-> TRUE ] ]
  /\ UNCHANGED << processVars, call, balance, active >>

\* variant of the query without the status filter
rows_any(table) ==
  { k \in 1..Len(table) : TRUE }

\* WHERE status = 'active'
rows_active(table) ==
  { k \in 1..Len(table) : table[k].status = "active" }

\* variant of the ordering that looks at the score only
ranks_before_by_score(a, b) ==
  a.score > b.score

\* ORDER BY score DESC, created_at DESC: row a comes before row b
ranks_before(a, b) ==
  \/ a.score > b.score
  \/ a.score = b.score /\ a.created_at > b.created_at

\* the rows of a set of ids in the order of the ORDER BY clause.  SQL leaves
\* the order of rows the clause does not tell apart to the engine: tie is
\* the engine's own order of the ids (sqlite: the order of the scan)
RECURSIVE order_by(_, _, _)
order_by(table, ids, tie) ==
  IF ids = { }
    THEN << >>
    ELSE LET first == CHOOSE i \in ids : \A j \in ids \ {i} :
                        \/ ranks_before(table[i], table[j])
                        \/ ~ranks_before(table[j], table[i]) /\ tie[i] < tie[j]
         IN << first >> \o order_by(table, ids \ {first}, tie)

\* LIMIT ? with a count of rows
limit_rows(rows, limit) ==
  SubSeq(rows, 1, Min(limit, Len(rows)))

\* RepoSupervisor.get_active_opportunities: the ids of the active rows,
\* ORDER BY score DESC, created_at DESC, LIMIT limit
get_active_opportunities(table, limit, tie) ==
  limit_rows(order_by(table, rows_active(table), tie), limit)

\* the limits of the callers: OpportunityMonitor.run uses the default 10,
\* get_top_opportunities passes its caller's
Limits == { 0, 1, 2, 10 }

\* the orders in which the engine may deliver rows of equal rank
TieOrders(table) == Permutations(1..Len(table))

\* one pass of OpportunityMonitor.run (limit 10), or a call of
\* MarketsSupervisor.get_top_opportunities
GetActive ==
  /\ \E limit \in Limits, tie \in TieOrders(opportunities) :
       active' = get_active_opportunities(opportunities, limit, tie)
  /\ UNCHANGED << processVars, call, balance, analysis, opportunities >>

\* RepoSupervisor.mark_opportunity_executed: UPDATE ... SET status =
\* 'executed' WHERE id = ?; an id without row changes nothing
mark_opportunity_executed(table, opp_id) ==
  [ k \in 1..Len(table) |->
      IF table[k].id = opp_id THEN [ table[k] EXCEPT !.status = "executed" ]
      ELSE table[k] ]

\* the execution component marks an opportunity
MarkExecuted ==
  /\ \E opp_id \in 1..(MaxRows + 1) :
       opportunities' = mark_opportunity_executed(opportunities, opp_id)
  /\ UNCHANGED << processVars, call, balance, analysis, active >>

PipelineNext ==
  \/ BalanceChanges
  \/ AnalysisPass
  \/ GetActive
  \/ MarkExecuted

PipelineSpec == Init /\ [][PipelineNext]_vars

\* ================================================================ properties
\* C1: for every supervisor the wrapper calls start() again at most
\* max_restarts times; when the crash count has reached max_restarts the
\* wrapper has re-raised (the supervisor is Failed) instead of restarting
C1_RestartBound ==
  \A s \in Sup :
    /\ restarts[s] <= max_restarts
    /\ restart_count[s] <= max_restarts
    /\ restart_count[s] >= max_restarts => tasks[s] = "failed"
    /\ tasks[s] = "failed" => restarts[s] < restart_count[s]

\* a supervisor is Failed after the restarts the wrapper grants
C1_Witness ==
  \E s \in Sup : tasks[s] = "failed" /\ restarts[s] = max_restarts - 1

\* C2: once a supervisor is Failed the process eventually ends with a
\* non-zero exit status
C2_FailedReachesExit ==
  (\E s \in Sup : tasks[s] = "failed") ~> (mainpc = "exited" /\ exitcode # 0)

\* C3: the stop() calls of stop_all, taken over the supervisors start_all
\* called start() on, run in the exact reverse of the start() calls, and once
\* stop_all has returned none of them is missing
C3_ReverseOrder ==
  LET invoked == { startLog[k] : k \in 1..Len(startLog) }
      stops == SelectSeq(stopLog, LAMBDA x : x \in invoked)
  IN /\ Len(stops) <= Len(startLog)
     /\ \A k \in 1..Len(stops) : stops[k] = startLog[Len(startLog) + 1 - k]
     /\ mainpc \in {"stopped", "closing", "exited"} => Len(stops) = Len(startLog)

\* start_all started every supervisor and stop_all has stopped every one
C3_Witness ==
  /\ mainpc = "stopped"
  /\ start_error = 0
  /\ Len(startLog) = NumSup
  /\ Len(stopLog) = NumSup

\* C4: a wrapper task that is alive when its CancelledError is delivered
\* ends there: run() is not entered again
C4_CancelEndsWrapper ==
  [][ \A s \in Sup :
        (CancelDelivered(s) /\ WrapperAlive(tasks[s])) => tasks'[s] = "cancelled" ]_vars

\* C5: when a stop() raises in stop_all, stop() is still called on every
\* supervisor in the sweep order, and stop_all returns normally: the only
\* exception that can be leaving KalshiBot.start is start_all's
C5_SweepNeverAborts ==
  /\ \A k \in 1..Len(stopLog) : stopLog[k] = NumSup + 1 - k
  /\ mainpc \in {"stopped", "closing", "exited"} => Len(stopLog) = NumSup
  /\ (stop_raised # {} /\ fatal) => start_error # 0

\* stop_all has returned after a stop() raised, and nothing propagates
C5_Witness ==
  mainpc = "stopped" /\ stop_raised # {} /\ ~fatal

\* C6: the health-check task is cancelled before the first stop(), and when
\* stop_all returns every wrapper task still alive has had cancel() called
C6_AllWrappersCancelled ==
  /\ stopLog # << >> => health_check_task # "sleeping"
  /\ mainpc = "stopped" =>
       \A s \in Sup : WrapperAlive(tasks[s]) => cancel_pending(s)

\* C7 as stated: is_healthy() is true iff the supervisor's flag is set, every
\* worker's flag is set and every heartbeat age is strictly below the timeout
C7_StrictlyBelow ==
  \A s \in Sup :
    is_healthy(s) <=>
      /\ healthy[s]
      /\ \A i \in 1..Len(workers[s]) :
           /\ workers[s][i].healthy
           /\ now - workers[s][i].last_heartbeat < HEARTBEAT_TIMEOUT

\* C7: is_healthy() is true iff the supervisor's flag is set, every worker's
\* flag is set and no heartbeat age exceeds the timeout (an age of exactly
\* the timeout is still healthy)
C7_NotAbove ==
  \A s \in Sup :
    is_healthy(s) <=>
      /\ healthy[s]
      /\ \A i \in 1..Len(workers[s]) :
           /\ workers[s][i].healthy
           /\ now - workers[s][i].last_heartbeat <= HEARTBEAT_TIMEOUT

\* a heartbeat exactly as old as the timeout, under a healthy supervisor
C7_Witness ==
  \E s \in Sup : \E i \in 1..Len(workers[s]) :
    /\ now - workers[s][i].last_heartbeat = HEARTBEAT_TIMEOUT
    /\ is_healthy(s)

\* C8: while a worker's heartbeat is older than the timeout its supervisor
\* is unhealthy, and stays so across every step in which that worker does
\* not call heartbeat(); the iteration that calls heartbeat() sets the
\* timestamp to now and the flag to True, and leaves the supervisor healthy
\* when its own flag is set and its other workers are healthy and fresh
C8_StaleUntilHeartbeat ==
  [][ \A s \in Sup : \A i \in 1..Len(workers[s]) :
        LET stale == now - workers[s][i].last_heartbeat > HEARTBEAT_TIMEOUT
            others_fine ==
              /\ healthy[s]
              /\ \A j \in 1..Len(workers[s]) :
                   j # i => /\ workers[s][j].healthy
                            /\ now - workers[s][j].last_heartbeat <= HEARTBEAT_TIMEOUT
        IN /\ stale => ~is_healthy(s)
           /\ (stale /\ ~WorkerIter(s, i)) => ~is_healthy(s)'
           /\ WorkerIter(s, i) =>
                /\ workers'[s][i].last_heartbeat = now'
                /\ workers'[s][i].healthy
                /\ others_fine => is_healthy(s)' ]_vars

\* a supervisor the last sweep reported for a stale worker is healthy again
C8_Witness ==
  \E s \in unhealthy : healthy[s] /\ is_healthy(s)

\* C9: no worker task ends because an iteration failed
C9_WorkerTaskSurvives ==
  \A s \in Sup : \A i \in 1..Len(workers[s]) : workers[s][i].task # "failed"

\* C11: the step in which a sweep reports a new unhealthy list changes no
\* supervisor flag, no worker, no restart counter, no task and no pending
\* cancellation, and calls neither start() nor stop()
C11_SweepObservesOnly ==
  [][ unhealthy' # unhealthy =>
        UNCHANGED << started, healthy, workers, tasks, ready, restart_count,
                     health_check_task, orphans, restarts, stopLog, startLog >> ]_vars

\* a sweep has reported a supervisor that is still running, never restarted
C11_Witness ==
  \E s \in unhealthy :
    tasks[s] = "run" /\ started[s] /\ restart_count[s] = 0 /\ restarts[s] = 0

\* C12: start_all calls start() in the declared order, and in the declared
\* order every supervisor comes after each supervisor it consumes
C12_DependenciesFirst ==
  /\ \A k \in 1..Len(startLog) : startLog[k] = k
  /\ \A k \in 1..Len(DeclaredOrder) :
       \A d \in Consumes(DeclaredOrder[k]) :
         \E j \in 1..(k - 1) : DeclaredOrder[j] = d

\* C13: stop() is only ever called on a supervisor that start_all has called
\* start() on: no supervisor is stopped while still NotStarted
C13_StopOnlyStarted ==
  \A k \in 1..Len(stopLog) :
    \E j \in 1..Len(startLog) : startLog[j] = stopLog[k]

C15_ConfiguredWorkersOnly ==
  \A s \in Sup :
    /\ Len(workers[s]) <= Len(InitWorkers(s))
    /\ orphans[s] = 0

\* C16: once the signal handler has run while KalshiBot.start sleeps in its
\* loop, and once start_all has raised, KalshiBot.start eventually returns
\* with stop_all performed once: stop() called on every supervisor, each
\* exactly once, in the sweep order
C16_SignalLeadsToStopAll ==
  ((mainpc = "blocking" /\ ~running) \/ start_error # 0)
    ~> (mainpc \in {"closing", "exited"} /\ stopLog = stop_all_order)

\* KalshiBot.start has returned after a signal and one full stop_all
C16_Witness ==
  /\ mainpc = "closing"
  /\ start_error = 0
  /\ Len(startLog) = NumSup
  /\ Len(stopLog) = NumSup

\* C10: an exception out of _main_loop leaves the wrapper inside run(), in
\* the cool-down sleep, with the restart counter as it was; after the
\* cool-down the loop test of run() is next
C10_MainLoopFailureContained ==
  [][ \A s \in Sup :
        /\ MainLoopFails(s) =>
             /\ tasks'[s] = "cooldown"
             /\ restart_count'[s] = restart_count[s]
        /\ (tasks[s] = "cooldown" /\ tasks'[s] # "cooldown" /\ restart_count'[s] = restart_count[s])
             => tasks'[s] \in {"run", "spin", "cancelled"} ]_vars

\* a supervisor cooling down after a _main_loop failure, never restarted
C10_Witness ==
  \E s \in Sup : tasks[s] = "cooldown" /\ restart_count[s] = 0

\* C17 (as stated): calculate_position never returns a size greater than
\* min(capital x max_position_pct, capital x max_total_exposure -
\* current_exposure), whatever the arguments.
C17_NeverAboveCaps ==
  call.fn = "calculate_position" =>
    call.result.size * 10000 <=
      Min(call.sizer.capital * call.sizer.max_position_pct,
          max_exposure_left(call.sizer, call.current_exposure))

\* C17 (amended): the size is never negative, and a non-zero size never
\* exceeds capital x max_position_pct nor the remaining exposure headroom; a
\* headroom below the minimum bet (a negative one included) gives size 0.
C17_NonZeroWithinCaps ==
  call.fn = "calculate_position" =>
    LET size == call.result.size
        headroom == call.sizer.capital * max_total_exposure
                      - call.current_exposure * 100
    IN /\ size >= 0
       /\ size > 0 =>
            /\ size * 10000 <= call.sizer.capital * call.sizer.max_position_pct
            /\ size * 10000 <= headroom
       /\ headroom < min_bet * 10000 => size = 0

\* a call whose Kelly amount is above the headroom and is cut down to it
C17_Witness ==
  /\ call.fn = "calculate_position"
  /\ call.sizer = [ capital |-> 20000, max_position_pct |-> 15 ]
  /\ call.current_exposure = 11700
  /\ get(call.breakdown, "edge", 0) = 20
  /\ call.confidence = "high"
  /\ call.result.size = 3

\* C18: calculate_position returns size 0 with a rejection reason whenever
\* the total score is below 40, or the edge sub-score is below 0.3, or the
\* liquidity sub-score is below 0.2, or the remaining exposure headroom is
\* below the minimum bet; when exactly one of the four holds the reason is
\* that one's.
C18_GatesReturnZero ==
  call.fn = "calculate_position" =>
    LET low_score == call.score < 40
        low_edge == get(call.breakdown, "edge", 0) < 6
        low_liquidity == get(call.breakdown, "liquidity", 0) < 2
        low_headroom == call.sizer.capital * 60 - call.current_exposure * 100
                          < 2 * 10000
        reason == call.result.reason
    IN /\ (low_score \/ low_edge \/ low_liquidity \/ low_headroom) =>
            /\ call.result.size = 0
            /\ reason \in { "Score too low", "Insufficient edge",
                            "Poor liquidity", "No capital available" }
       /\ (low_score /\ ~low_edge /\ ~low_liquidity /\ ~low_headroom)
            => reason = "Score too low"
       /\ (~low_score /\ low_edge /\ ~low_liquidity /\ ~low_headroom)
            => reason = "Insufficient edge"
       /\ (~low_score /\ ~low_edge /\ low_liquidity /\ ~low_headroom)
            => reason = "Poor liquidity"
       /\ (~low_score /\ ~low_edge /\ ~low_liquidity /\ low_headroom)
            => reason = "No capital available"

\* a call that only the liquidity test rejects and that would otherwise be
\* sized at 8 dollars
C18_Witness ==
  /\ call.fn = "calculate_position"
  /\ call.sizer = [ capital |-> 20000, max_position_pct |-> 15 ]
  /\ call.market = [ last_price |-> 45 ]
  /\ call.score = 75
  /\ call.confidence = "high"
  /\ call.breakdown = [ edge |-> 20, risk |-> 10, liquidity |-> 1 ]
  /\ call.current_exposure = 0
  /\ call.result = [ size |-> 0, reason |-> "Poor liquidity" ]

\* C19: PositionSizer(capital 66.13, max_position_pct 0.15), default Kelly
\* fraction and minimum bet, for a market at 45 cents with score 75,
\* confidence high, edge 0.6, risk 0.8, liquidity 0.9 and no current exposure,
\* returns a non-zero size of at most 9.
C19_TestCaseSized ==
  ( /\ call.fn = "calculate_position"
    /\ call.sizer = [ capital |-> 6613, max_position_pct |-> 15 ]
    /\ call.market = [ last_price |-> 45 ]
    /\ call.score = 75
    /\ call.confidence = "high"
    /\ call.breakdown = [ edge |-> 12, risk |-> 8, liquidity |-> 9 ]
    /\ call.current_exposure = 0 )
  => /\ call.result.size > 0
     /\ call.result.size <= 9

\* C20: for every market, crossed books and missing fields included,
\* score_market returns a total score in [0,100] and each of the five
\* sub-scores in [0,1].
C20_ScoresInRange ==
  call.fn = "score_market" =>
    /\ call.result.total >= 0
    /\ call.result.total <= 100 * ScoreUnit
    /\ \A k \in DOMAIN call.result.breakdown :
         /\ call.result.breakdown[k] >= 0
         /\ call.result.breakdown[k] <= ScoreUnit

\* C21, first part: with the other fields fixed, a larger 24h volume never
\* gives a smaller liquidity sub-score.
C21_VolumeMonotone ==
  call.fn = "score_market" =>
    \A volume \in MarketVolumes :
      volume >= get(call.market, "volume_24h", 0) =>
        _score_liquidity(with(call.market, "volume_24h", volume))
          >= call.result.breakdown.liquidity

\* C21, second part: the same for the open interest.
C21_OpenInterestMonotone ==
  call.fn = "score_market" =>
    \A open_interest \in MarketOpenInterests :
      open_interest >= get(call.market, "open_interest", 0) =>
        _score_liquidity(with(call.market, "open_interest", open_interest))
          >= call.result.breakdown.liquidity

\* C21, third part: with the other fields fixed, a wider spread yes_ask -
\* yes_bid never gives a larger liquidity sub-score, the step from spread 0
\* to spread 1 included.
C21_SpreadMonotone ==
  call.fn = "score_market" =>
    \A yes_ask \in 0..100 :
      yes_ask >= get(call.market, "yes_ask", 100) =>
        _score_liquidity(with(call.market, "yes_ask", yes_ask))
          <= call.result.breakdown.liquidity

\* C21: the liquidity sub-score is non-decreasing in 24h volume and in open
\* interest and non-increasing in the spread width, over all spreads.
C21_LiquidityMonotone ==
  /\ C21_VolumeMonotone
  /\ C21_OpenInterestMonotone
  /\ C21_SpreadMonotone

\* C22: the timeframe sub-score is 1.0 exactly when the whole days until
\* close are in [14,30) and lower otherwise, following the steps <3 0.2,
\* <7 0.5, <14 0.8, <30 1.0, <60 0.7, <90 0.5, else 0.3; it is 0.3 when the
\* close time is missing or is no timestamp.
C22_TimeframeSteps ==
  call.fn = "score_market" =>
    LET timeframe == call.result.breakdown.timeframe
    IN IF "close_time" \notin DOMAIN call.market
         THEN timeframe * 10 = 3 * ScoreUnit
       ELSE IF call.market["close_time"].form = "garbage"
         THEN timeframe * 10 = 3 * ScoreUnit
       ELSE LET days == call.market["close_time"].days
                tenths == IF days < 3 THEN 2
                          ELSE IF days < 7 THEN 5
                          ELSE IF days < 14 THEN 8
                          ELSE IF days < 30 THEN 10
                          ELSE IF days < 60 THEN 7
                          ELSE IF days < 90 THEN 5
                          ELSE 3
            IN /\ timeframe * 10 = tenths * ScoreUnit
               /\ timeframe = ScoreUnit <=> (days >= 14 /\ days < 30)
               /\ timeframe <= ScoreUnit

\* C22 for the close times the code can subtract from datetime.now(): a
\* timestamp without 'Z' or offset follows the step function.
C22_NaiveTimeframeSteps ==
  (call.fn = "score_market" /\ "close_time" \in DOMAIN call.market) =>
    (call.market["close_time"].form = "naive" =>
       LET days == call.market["close_time"].days
           timeframe == call.result.breakdown.timeframe
       IN /\ timeframe = ScoreUnit <=> (days >= 14 /\ days < 30)
          /\ days < 3 => timeframe * 10 = 2 * ScoreUnit
          /\ (days >= 30 /\ days < 60) => timeframe * 10 = 7 * ScoreUnit)

\* C23 (as stated): for the sports test market (price 65, volume 15000,
\* open interest 50000, bid 64, ask 66, close time 10 days ahead)
\* score_market gives liquidity 0.94, edge 0.30, timeframe 0.5, a total in
\* [55,65] and confidence medium or high.
C23_ExampleAsStated ==
  (call.fn = "score_market" /\ \E e \in {0, 1} : call.market = test_markets(e)[1]) =>
    /\ call.result.breakdown.liquidity * 100 = 94 * ScoreUnit
    /\ call.result.breakdown.edge * 100 = 30 * ScoreUnit
    /\ call.result.breakdown.timeframe * 10 = 5 * ScoreUnit
    /\ call.result.total >= 55 * ScoreUnit
    /\ call.result.total <= 65 * ScoreUnit
    /\ call.result.confidence \in { "medium", "high" }

\* C23 (amended): the same market gives liquidity 0.94, edge 0.30, timeframe
\* 0.8 (7 <= days < 14), a total in [55,65] and confidence medium or high.
C23_Example ==
  (call.fn = "score_market" /\ \E e \in {0, 1} : call.market = test_markets(e)[1]) =>
    /\ call.result.breakdown.liquidity * 100 = 94 * ScoreUnit
    /\ call.result.breakdown.edge * 100 = 30 * ScoreUnit
    /\ call.result.breakdown.timeframe * 10 = 8 * ScoreUnit
    /\ call.result.total >= 55 * ScoreUnit
    /\ call.result.total <= 65 * ScoreUnit
    /\ call.result.confidence \in { "medium", "high" }

\* the sports test market has been scored, at 64.76
C23_Witness ==
  /\ call.fn = "score_market"
  /\ call.market = test_markets(1)[1]
  /\ call.result.total * 100 = 6476 * ScoreUnit
  /\ call.result.confidence = "medium"

\* C24: the confidence label of score_market is "high" exactly when
\* liquidity > 0.6 and edge > 0.5, otherwise "low" exactly when liquidity <
\* 0.3 or edge < 0.3, otherwise "medium"; it is always one of the three.
C24_ConfidenceLabel ==
  call.fn = "score_market" =>
    LET liquidity == call.result.breakdown.liquidity
        edge == call.result.breakdown.edge
        high == liquidity * 10 > 6 * ScoreUnit /\ edge * 10 > 5 * ScoreUnit
        low == liquidity * 10 < 3 * ScoreUnit \/ edge * 10 < 3 * ScoreUnit
        confidence == call.result.confidence
    IN /\ confidence \in { "high", "medium", "low" }
       /\ confidence = "high" <=> high
       /\ confidence = "low" <=> (~high /\ low)
       /\ confidence = "medium" <=> (~high /\ ~low)

\* a market scored with liquidity exactly 0.6 and edge above 0.5, labelled
\* medium
C24_Witness ==
  /\ call.fn = "score_market"
  /\ call.result.breakdown.liquidity * 10 = 6 * ScoreUnit
  /\ call.result.breakdown.edge * 10 > 5 * ScoreUnit
  /\ call.result.confidence = "medium"

\* C25: rank_markets returns exactly one entry per input market (a
\* permutation of the input, nothing dropped or duplicated), each entry with
\* the score, confidence and breakdown score_market gives for its market, in
\* order of non-increasing score.
C25_RankedPermutation ==
  call.fn = "rank_markets" =>
    LET n == Len(call.markets)
        ranked == call.result
    IN /\ Len(ranked) = n
       /\ \E p \in [ 1..n -> 1..n ] :
            /\ \A i, j \in 1..n : p[i] = p[j] => i = j
            /\ \A i \in 1..n : ranked[i].market = call.markets[p[i]]
       /\ \A i \in 1..n :
            /\ ranked[i].score = score_market(ranked[i].market).total
            /\ ranked[i].confidence = score_market(ranked[i].market).confidence
            /\ ranked[i].breakdown = score_market(ranked[i].market).breakdown
       /\ \A i \in 1..(n - 1) : ranked[i].score >= ranked[i + 1].score

\* a list of three markets given in ascending order of score, with a repeated
\* market, has been ranked
C25_Witness ==
  /\ call.fn = "rank_markets"
  /\ Len(call.markets) = 3
  /\ call.markets[1] = call.markets[2]
  /\ score_market(call.markets[2]).total < score_market(call.markets[3]).total
  /\ call.result[1].market = call.markets[3]

\* C26: the weights liquidity .25, edge .35, timeframe .20, volatility .10,
\* risk .10 sum to exactly 1, so the total is 100 when every sub-score is 1
\* and 0 when every sub-score is 0.
C26_WeightsSumToOne ==
  /\ WEIGHTS.liquidity + WEIGHTS.edge + WEIGHTS.timeframe
       + WEIGHTS.volatility + WEIGHTS.risk = 100
  /\ call.fn = "total_score" =>
       /\ (\A k \in DOMAIN call.scores : call.scores[k] = ScoreUnit)
            => call.result = 100 * ScoreUnit
       /\ (\A k \in DOMAIN call.scores : call.scores[k] = 0)
            => call.result = 0
       /\ call.result >= 0
       /\ call.result <= 100 * ScoreUnit

\* the total of five sub-scores of 1 has been taken
C26_Witness ==
  /\ call.fn = "total_score"
  /\ \A k \in DOMAIN call.scores : call.scores[k] = ScoreUnit
  /\ call.result = 100 * ScoreUnit

\* C27: scoring and sizing do not raise on a market with any of its fields
\* missing, on an unrecognised confidence label or on a breakdown with
\* factors missing: score_market returns a (score, confidence, breakdown)
\* triple with the five sub-scores, calculate_position a (size, reason) pair.
C27_NeverRaises ==
  /\ call.fn = "score_market" =>
       /\ call.result # Raised
       /\ DOMAIN call.result = { "total", "confidence", "breakdown" }
       /\ DOMAIN call.result.breakdown
            = { "liquidity", "edge", "timeframe", "volatility", "risk" }
  /\ call.fn = "calculate_position" =>
       /\ call.result # Raised
       /\ DOMAIN call.result = { "size", "reason" }
       /\ call.result.size >= 0

\* a market without any field has been scored (at 29.1, confidence low)
C27_Witness ==
  /\ call.fn = "score_market"
  /\ DOMAIN call.market = { }
  /\ call.result.total * 10 = 291 * ScoreUnit
  /\ call.result.confidence = "low"

\* a position has been sized for an unrecognised confidence label, a market
\* without price and a breakdown without risk factor
C27_WitnessSizing ==
  /\ call.fn = "calculate_position"
  /\ call.confidence = "unknown"
  /\ DOMAIN call.market = { }
  /\ DOMAIN call.breakdown = { "edge", "liquidity" }
  /\ call.result.size > 0

\* C28: on every sizing pass of the market-analysis worker the capital the
\* PositionSizer uses equals the balance read from the capital collaborator
\* in that pass, also after the balance has changed between passes.
C28_CapitalFresh ==
  (analysis.last.outcome = "sized") =>
    analysis.last.capital = analysis.last.balance

C29_NoDataThisCycle ==
  [][ ("raised" \in DOMAIN analysis'.last /\ analysis' # analysis) =>
        /\ opportunities' = opportunities
        /\ analysis.sizer # << >> => analysis'.sizer = analysis.sizer ]_vars

C30_StatusTransitions ==
  [][ /\ Len(opportunities') >= Len(opportunities)
      /\ \A k \in 1..Len(opportunities) :
           /\ opportunities'[k].id = opportunities[k].id
           /\ opportunities'[k].status # opportunities[k].status =>
                /\ opportunities[k].status = "active"
                /\ opportunities'[k].status = "executed"
                /\ \E opp_id \in 1..(MaxRows + 1) :
                     opportunities' = mark_opportunity_executed(opportunities, opp_id)
      /\ \A k \in (Len(opportunities) + 1)..Len(opportunities') :
           /\ opportunities'[k].status = "active"
           /\ opportunities'[k].id = k
      /\ active' # active =>
           \A j \in 1..Len(active') :
             /\ active'[j] \in 1..Len(opportunities)
             /\ opportunities[active'[j]].status = "active" ]_vars

\* the first opportunity has been marked executed and a later query has
\* returned another one
C30_Witness ==
  /\ Len(opportunities) >= 2
  /\ opportunities[1].status = "executed"
  /\ Len(active) = 1
  /\ active[1] # 1
  /\ opportunities[active[1]].status = "active"

\* C31 as stated, taking the creation time of a row for the moment of its
\* INSERT (ids grow with it): get_active_opportunities(limit) returns at
\* most limit rows, all active, by score descending and among equal scores
\* the row created later first, and no active row left out ranks above a
\* returned one.
C31_RecencyOrder ==
  \A limit \in Limits, tie \in TieOrders(opportunities) :
    LET result == get_active_opportunities(opportunities, limit, tie)
        row(k) == opportunities[result[k]]
    IN /\ Len(result) <= limit
       /\ \A k \in 1..Len(result) : row(k).status = "active"
       /\ \A j, k \in 1..Len(result) :
            j < k => \/ row(j).score > row(k).score
                     \/ row(j).score = row(k).score /\ row(j).id > row(k).id

\* C31, amended: get_active_opportunities(limit) returns min(limit, number
\* of active rows) distinct rows, all active, by score descending and among
\* equal scores by the recorded created_at (whole seconds) descending; no
\* active row left out has a higher score, or the same score and a later
\* created_at, than a returned one.  Rows of equal score stored in the same
\* second come in the engine's order.
C31_QueryRanked ==
  \A limit \in Limits, tie \in TieOrders(opportunities) :
    LET result == get_active_opportunities(opportunities, limit, tie)
        row(k) == opportunities[result[k]]
        returned == { result[k] : k \in 1..Len(result) }
        n_active == Cardinality({ i \in 1..Len(opportunities) :
                                   opportunities[i].status = "active" })
    IN /\ Len(result) = Min(limit, n_active)
       /\ Cardinality(returned) = Len(result)
       /\ \A k \in 1..Len(result) :
            /\ result[k] \in 1..Len(opportunities)
            /\ row(k).status = "active"
       /\ \A j, k \in 1..Len(result) :
            j < k => \/ row(j).score > row(k).score
                     \/ /\ row(j).score = row(k).score
                        /\ row(j).created_at >= row(k).created_at
       /\ \A i \in 1..Len(opportunities), k \in 1..Len(result) :
            (opportunities[i].status = "active" /\ i \notin returned) =>
              \/ opportunities[i].score < row(k).score
              \/ /\ opportunities[i].score = row(k).score
                 /\ opportunities[i].created_at <= row(k).created_at

\* two active rows, the one of the higher score stored a minute after the
\* other; a query with limit 1 has returned the later one alone
C31_Witness ==
  /\ Len(opportunities) = 2
  /\ \A i \in 1..2 : opportunities[i].status = "active"
  /\ opportunities[1].score < opportunities[2].score
  /\ opportunities[1].created_at < opportunities[2].created_at
  /\ active = << 2 >>

\* two active rows of equal score stored a minute apart; a query has
\* returned both, the later one first
C31_WitnessRecency ==
  /\ Len(opportunities) = 2
  /\ \A i \in 1..2 : opportunities[i].status = "active"
  /\ opportunities[1].score = opportunities[2].score
  /\ opportunities[1].created_at < opportunities[2].created_at
  /\ active = << 2, 1 >>

\* C32: start_all calls start() on the supervisors one after another in the
\* declared order; a wrapper task exists only for a supervisor whose start()
\* has returned, and when start() of a supervisor begins every earlier one
\* has returned and has its wrapper task; the health-check task exists only
\* once every supervisor has been started; when a start() raises, start_all
\* raises, the supervisor and every later one have no wrapper task and are
\* not started, and there is no health-check task.
C32_StartAllInOrder ==
  /\ \A k \in 1..Len(startLog) : startLog[k] = k
  /\ \A s \in Sup :
       tasks[s] # "none" => s <= Len(startLog) /\ start_error # s
  /\ mainpc = "start_all" =>
       /\ Len(startLog) = idx - 1
       /\ \A s \in Sup : s < idx => tasks[s] # "none"
  /\ health_check_task # "none" =>
       /\ start_error = 0
       /\ Len(startLog) = NumSup
       /\ \A s \in Sup : tasks[s] # "none"
  /\ start_error # 0 =>
       /\ fatal
       /\ mainpc # "start_all"
       /\ health_check_task = "none"
       /\ Len(startLog) = start_error
       /\ \A s \in Sup : s >= start_error => tasks[s] = "none" /\ ~started[s]

\* start() of the third supervisor has raised after the first two were
\* started and given their wrapper tasks
C32_Witness ==
  /\ start_error = 3
  /\ tasks[1] # "none"
  /\ tasks[2] # "none"
  /\ tasks[3] = "none"
  /\ health_check_task = "none"

\* C33: every size calculate_position returns is 0 or a whole number of
\* dollars that is at least min_bet.
C33_ZeroOrAtLeastMinBet ==
  (call.fn = "calculate_position" /\ call.result # Raised) =>
    /\ call.result.size \in Nat
    /\ call.result.size = 0 \/ call.result.size >= min_bet

\* a call whose amount comes to 1.38 dollars, floored to 1, and is rejected
\* as too small
C33_Witness ==
  /\ call.fn = "calculate_position"
  /\ call.sizer = [ capital |-> 6613, max_position_pct |-> 15 ]
  /\ call.market = [ last_price |-> 45 ]
  /\ call.score = 75
  /\ call.confidence = "low"
  /\ call.breakdown = [ edge |-> 20, risk |-> 10, liquidity |-> 9 ]
  /\ call.current_exposure = 0
  /\ call.result = [ size |-> 0, reason |-> "Position too small" ]

\* C34: the edge sub-score is the score of the first of sports 0.3, politics
\* 0.4, economics 0.5, weather 0.2, entertainment 0.2 found in the lower-case
\* category or ticker, 0.3 when none is found, plus (20 - price)/20 * 0.3
\* below 20 cents, (price - 80)/20 * 0.3 above 80 cents, the sum clamped to
\* [0, 1].
C34_EdgeScore ==
  call.fn = "_score_edge" =>
    LET price == get(call.market, "last_price", 50)
        found == categories_in(lower(get(call.market, "category", "")))
                   \cup categories_in(lower(get(call.market, "ticker", "")))
        base == IF "sports" \in found THEN 3
                ELSE IF "politics" \in found THEN 4
                ELSE IF "economics" \in found THEN 5
                ELSE IF "weather" \in found THEN 2
                ELSE IF "entertainment" \in found THEN 2
                ELSE 3
        \* tenths and two-hundredths brought to ScoreUnit
        sum == base * (ScoreUnit \div 10)
                 + (IF price < 20 THEN (20 - price) * 3 * (ScoreUnit \div 200)
                    ELSE IF price > 80 THEN (price - 80) * 3 * (ScoreUnit \div 200)
                    ELSE 0)
    IN call.result = Max(0, Min(ScoreUnit, sum))

\* a market of category "World Politics" whose ticker names sports, at 10
\* cents: sports comes first in the table, 0.3 + 0.15
C34_Witness ==
  /\ call.fn = "_score_edge"
  /\ call.market = [ category |-> "World Politics", ticker |-> "KXSPORTS-24",
                     last_price |-> 10 ]
  /\ call.result = 45 * (ScoreUnit \div 100)

\* C35: the position sizes of the opportunities stored in one pass, added to
\* the current exposure read in that pass, do not exceed capital *
\* max_total_exposure.
C35_PassWithinExposureCap ==
  (analysis.last.outcome = "sized" /\ analysis.last.store_called) =>
    (analysis.last.recommended * 100 + analysis.last.exposure) * 100
      <= analysis.last.capital * max_total_exposure

\* C36: every row of the opportunities table has a total score of at least
\* 50 and a position size that is positive and at least min_bet; a pass that
\* called store_opportunities passed at least one opportunity, and a pass in
\* which none qualified did not call it.
C36_OnlyQualifyingStored ==
  /\ \A k \in 1..Len(opportunities) :
       /\ opportunities[k].score >= 50 * ScoreUnit
       /\ opportunities[k].position_size > 0
       /\ opportunities[k].position_size >= min_bet
  /\ analysis.last.outcome = "sized" =>
       (analysis.last.store_called <=> analysis.last.stored > 0)

\* a pass has found a market that scores 50 and sized it, and stored that one
\* opportunity
C36_Witness ==
  /\ analysis.last.outcome = "sized"
  /\ analysis.last.store_called
  /\ analysis.last.stored = 1
  /\ opportunities[Len(opportunities)].score = 50 * ScoreUnit
  /\ opportunities[Len(opportunities)].market_id = "ECON-RATE"

\* a pass in which no market was sized above 0, the sizer's capital being
\* 66.13, has not called store_opportunities
C36_WitnessNoneQualifies ==
  /\ analysis.last.outcome = "sized"
  /\ ~analysis.last.store_called
  /\ analysis.last.capital = InitialBalance

\* C37: a position is YES when the implied true probability (the price plus
\* (edge - 0.3) * 20, clamped to 0..100) exceeds the price and NO otherwise,
\* and a call that passes the score, liquidity and exposure tests can return
\* a NO position of non-zero size.
C37_BothDirections ==
  /\ (call.fn = "calculate_position" /\ call.result # Raised /\ call.result.size > 0) =>
       LET price == get(call.market, "last_price", 50)
           true_prob == Max(0, Min(100, price + get(call.breakdown, "edge", 0) - 6))
       IN call.result.reason = (IF true_prob > price THEN "YES" ELSE "NO")
  /\ call = NoCall =>
       ENABLED ( /\ CalculatePositionAtPrice
                 /\ call'.result.reason = "NO"
                 /\ call'.result.size > 0 )

\* every position of non-zero size is a YES position
C37_OnlyYes ==
  (call.fn = "calculate_position" /\ call.result # Raised /\ call.result.size > 0) =>
    call.result.reason = "YES"

\* C38: a wrapper task has ended with an exception only after counting
\* max_restarts crashes, also when the exception is that of start() called
\* after the backoff.
C38_RestartFailureCounted ==
  \A s \in Sup :
    tasks[s] \in { "failed", "died" } => restart_count[s] >= max_restarts

\* C39: when the Repo supervisor's flag is down after a failed connection
\* probe and all its workers are healthy and fresh, an iteration of its main
\* loop in which the probe succeeds leaves is_healthy() true.
C39_FlagRecovers ==
  \A s \in Sup :
    ( /\ SupName(s) = "repo"
      /\ ~healthy[s]
      /\ workers_healthy(workers[s], 1)
      /\ ENABLED WrapperRun(s) ) =>
        ENABLED (WrapperRun(s) /\ healthy'[s] /\ workers_healthy(workers'[s], 1))

====
